---- MODULE Spec2Model ----
(***************************************************************************)
(* A model of three parts of tfhe-rs:                                      *)
(*   - shortint::key_switching_key (KeySwitchingKey: new, from_raw_parts,  *)
(*     cast_into, cast),                                                   *)
(*   - core_crypto::commons::math::random::t_uniform (TUniform sampler),   *)
(*   - core_crypto::algorithms::glwe_encryption (GLWE encryption,          *)
(*     decryption, trivial encryption).                                    *)
(* Each part has its own specification (SpecKS, SpecTU, SpecGlwe); the     *)
(* variables of the other parts stay at their initial value.               *)
(***************************************************************************)
EXTENDS Integers, Sequences, FiniteSets, TLC

VARIABLES
    \* ---- key switching key -------------------------------------------
    overflow_checks,   \* TRUE in a build with overflow checks (debug), FALSE otherwise
    key_pair_1,        \* the source (ClientKey, ServerKey) pair: its parameter set
    key_pair_2,        \* the destination pair
    ksk,               \* the KeySwitchingKey built, or NoKey
    ksk_state,         \* "none" | "new" | "from_raw_parts" | "ctor_panic"
    cleartext,         \* the message given to encrypt
    src_ct,            \* the source shortint ciphertext, or NoCt
    dst_ct,            \* the destination shortint ciphertext, or NoCt
    cast_state,        \* "idle" | "encrypted" | "cast_into" | "cast" | "cast_panic" | "decrypted_.."
    cast_trace,        \* steps performed by the last cast_into, in order
    src_before,        \* src_ct as it was when the cast was called
    dst_before,        \* dst_ct as it was when the cast was called
    decrypted,         \* result of the destination client key's decryption
    \* ---- TUniform ----------------------------------------------------
    tu_bits,           \* T::BITS of the scalar type the sampler is instantiated for
    tu_dist,           \* the TUniform value built by new, or NoDist
    tu_state,          \* "init" | "ready" | "new_panic"
    tu_r,              \* the next value of the low bound_log2 + 2 bits to be drawn
    tu_hist,           \* how many samples returned each scalar so far
    tu_last,           \* the bound_log2 given to new and the last call of
                       \* generate_one: r, bytes drawn, bytes left, result
    \* ---- GLWE encryption ---------------------------------------------
    g_secret_key,        \* the GlweSecretKey, or NoKey
    g_plaintext_list,    \* the PlaintextList to encrypt
    g_noise_parameters,  \* the dispersion parameter handed to the encryptions
    g_generator_0,       \* the EncryptionRandomGenerator state every run starts from
    run                  \* run 1 and run 2: what each did and what it left

ksVars == <<overflow_checks, key_pair_1, key_pair_2, ksk, ksk_state, cleartext,
            src_ct, dst_ct, cast_state, cast_trace, src_before, dst_before, decrypted>>

tuVars == <<tu_bits, tu_dist, tu_state, tu_r, tu_hist, tu_last>>

glweVars == <<g_secret_key, g_plaintext_list, g_noise_parameters, g_generator_0, run>>

vars == <<ksVars, tuVars, glweVars>>

\* Absent values
NoKey == [none |-> TRUE]
NoCt == [none |-> TRUE]
NoDist == [none |-> TRUE]
NoCall == [none |-> TRUE]

(***************************************************************************)
(* Integer helpers                                                         *)
(***************************************************************************)
Pow2(n) == 2 ^ n

\* usize::is_power_of_two
RECURSIVE is_power_of_two(_)
is_power_of_two(x) ==
    \/ x = 1
    \/ x > 1 /\ x % 2 = 0 /\ is_power_of_two(x \div 2)

\* usize::ilog2 (x > 0)
RECURSIVE ilog2(_)
ilog2(x) == IF x <= 1 THEN 0 ELSE 1 + ilog2(x \div 2)

Min(a, b) == IF a < b THEN a ELSE b

(***************************************************************************)
(* Key switching key: types                                                *)
(***************************************************************************)
\* Number of bits of the u64 torus the model keeps (the most significant ones).
TorusBits == 6

U64Bits == 64
I8Min == -128
I8Max == 127

TorusModulus == Pow2(TorusBits)

\* Parameter sets (message_modulus, carry_modulus, LWE dimension, ciphertext modulus).
ParamSets ==
    { [id |-> "1_1", message_modulus |-> 2, carry_modulus |-> 2,
       lwe_dimension |-> 1, ciphertext_modulus |-> "native"],
      [id |-> "2_2", message_modulus |-> 4, carry_modulus |-> 4,
       lwe_dimension |-> 2, ciphertext_modulus |-> "native"],
      [id |-> "3_1", message_modulus |-> 8, carry_modulus |-> 2,
       lwe_dimension |-> 2, ciphertext_modulus |-> "native"],
      [id |-> "3x2", message_modulus |-> 3, carry_modulus |-> 2,
       lwe_dimension |-> 1, ciphertext_modulus |-> "native"],
      [id |-> "1_1_q", message_modulus |-> 2, carry_modulus |-> 2,
       lwe_dimension |-> 1, ciphertext_modulus |-> "pow2_32"] }

full_message_modulus(p) == p.carry_modulus * p.message_modulus

\* The encoding step of a parameter set: (1 << 63) / (m * c), at the model's precision.
Delta(p) == Pow2(TorusBits - 1) \div full_message_modulus(p)

\* ClientKey encryption of a message-and-carry value: an LWE ciphertext of the
\* encoded value under the client key, tagged with the moduli of the parameters.
encrypt(ck, m) ==
    [ct |-> [pt |-> (m * Delta(ck)) % TorusModulus, under |-> ck.id,
             lwe_dimension |-> ck.lwe_dimension,
             ciphertext_modulus |-> ck.ciphertext_modulus],
     message_modulus |-> ck.message_modulus,
     carry_modulus |-> ck.carry_modulus]

\* ServerKey::create_trivial
create_trivial(sk, m) ==
    [ct |-> [pt |-> ((m % sk.message_modulus) * Delta(sk)) % TorusModulus,
             under |-> sk.id, lwe_dimension |-> sk.lwe_dimension,
             ciphertext_modulus |-> sk.ciphertext_modulus],
     message_modulus |-> sk.message_modulus,
     carry_modulus |-> sk.carry_modulus]

\* ClientKey decryption of message and carry: round to the closest multiple of
\* the encoding step and divide.
decrypt_message_and_carry(ck, c) ==
    ((c.ct.pt + (Delta(ck) \div 2)) % TorusModulus) \div Delta(ck)

\* ShortintEngine::new_key_switching_key: a keyswitch key from the first client
\* key to the second one.
new_key_switching_key(ck1, ck2) ==
    [from |-> ck1.id, to |-> ck2.id,
     input_key_lwe_dimension |-> ck1.lwe_dimension,
     output_key_lwe_dimension |-> ck2.lwe_dimension,
     ciphertext_modulus |-> ck2.ciphertext_modulus]

\* keyswitch_lwe_ciphertext aborts on a dimension or modulus mismatch between
\* the keyswitch key and the input or the output ciphertext.
keyswitch_panics(k, in, out) ==
    \/ k.input_key_lwe_dimension # in.lwe_dimension
    \/ k.output_key_lwe_dimension # out.lwe_dimension
    \/ k.ciphertext_modulus # in.ciphertext_modulus
    \/ k.ciphertext_modulus # out.ciphertext_modulus

\* keyswitch_lwe_ciphertext: the plaintext is kept, the key changes.
keyswitch_lwe_ciphertext(k, in, out) ==
    [pt |-> in.pt,
     under |-> IF in.under = k.from THEN k.to ELSE "none",
     lwe_dimension |-> out.lwe_dimension,
     ciphertext_modulus |-> out.ciphertext_modulus]

\* ServerKey::generate_lookup_table(f) followed by apply_lookup_table: the
\* table holds f(n) for n in [0, m*c), encoded with the key's step; an input
\* whose padding bit is set reads the negated table (negacyclic).
apply_lookup_table(sk, c, f) ==
    LET mc == full_message_modulus(sk)
        idx == ((c.ct.pt + (Delta(sk) \div 2)) % TorusModulus) \div Delta(sk)
        out == IF idx < mc
               THEN (f[idx] * Delta(sk)) % TorusModulus
               ELSE (TorusModulus - ((f[idx % mc] * Delta(sk)) % TorusModulus)) % TorusModulus
    IN [c EXCEPT !.ct = [pt |-> out,
                         under |-> IF c.ct.under = sk.id THEN sk.id ELSE "none",
                         lwe_dimension |-> c.ct.lwe_dimension,
                         ciphertext_modulus |-> c.ct.ciphertext_modulus]]

(***************************************************************************)
(* Key switching key: machine arithmetic of the closures in cast_into      *)
(***************************************************************************)
\* A shift of a u64 by an i8 amount overflows when the amount is not in [0, 64).
shift_overflows(amount) == amount < 0 \/ amount >= U64Bits

\* Without overflow checks the shift amount is reduced modulo the bit width.
wrapped_shift(amount) == amount % U64Bits

\* i8 negation: -i overflows for i = i8::MIN and then wraps to i8::MIN.
neg_overflows(i) == i = I8Min
wrapping_neg(i) == IF i = I8Min THEN I8Min ELSE 0 - i

\* n >> s on u64, 0 <= s < 64, for the small n a lookup table is indexed by.
shr_u64(n, s) == IF s >= 30 THEN 0 ELSE n \div Pow2(s)

\* ((n << s) mod 2^64) % q, 0 <= s < 64, without forming the 64-bit value:
\* the bits of n shifted out at the top are dropped first, then the product
\* with 2^s is formed modulo q, 16 bits of s at a time.
mul_pow2_mod(x, s, q) ==
    LET t == Pow2(16) % q
        high == CASE s \div 16 = 0 -> 1 % q
                  [] s \div 16 = 1 -> t
                  [] s \div 16 = 2 -> (t * t) % q
                  [] OTHER -> (((t * t) % q) * t) % q
    IN ((((x % q) * high) % q) * (Pow2(s % 16) % q)) % q

shl_u64_mod(n, s, q) ==
    LET kept == IF U64Bits - s >= 30 THEN n ELSE n % Pow2(U64Bits - s)
    IN mul_pow2_mod(kept, s, q)

\* The closure |n| n >> i of the widening case (shift amount already reduced).
widen_fn(n, s) == shr_u64(n, s)

\* narrow_fn with the reduction done modulo twice the full message modulus,
\* which lets the shifted value reach the padding bit.
narrow_fn_dirty_padding(n, s, c) ==
    shl_u64_mod(n, s, 2 * c.carry_modulus * c.message_modulus)

\* The closure |n| (n << -i) % (ct.carry_modulus.0 * ct.message_modulus.0) of
\* the narrowing case (shift amount already reduced).
narrow_fn(n, s, c) == shl_u64_mod(n, s, c.carry_modulus * c.message_modulus)

(***************************************************************************)
(* Key switching key: constructors                                         *)
(***************************************************************************)
\* nb_bits_2 - nb_bits_1 on i8.
i8_sub(a, b) == a - b

\* The moduli are usize values. A usize is held as its bytes, the least
\* significant first, so that products up to and beyond 2^64 are exact.
UsizeBits == 64
UsizeBytes == UsizeBits \div 8

\* The usize of value n, for n below 2^24
usize(n) == [k \in 0..(UsizeBytes - 1) |-> IF k >= 3 THEN 0 ELSE (n \div (256 ^ k)) % 256]

\* The usize 2^e, for e below 64
usize_pow2(e) == [k \in 0..(UsizeBytes - 1) |-> IF k = e \div 8 THEN 2 ^ (e % 8) ELSE 0]

\* Sum of a[i] * b[k - i] over the byte positions i..k of column k
RECURSIVE mul_column(_, _, _, _)
mul_column(a, b, k, i) ==
    IF i > k \/ i >= UsizeBytes THEN 0
    ELSE (IF k - i < UsizeBytes THEN a[i] * b[k - i] ELSE 0) + mul_column(a, b, k, i + 1)

\* What column k of the product passes on to column k + 1
RECURSIVE mul_carry(_, _, _)
mul_carry(a, b, k) ==
    IF k < 0 THEN 0 ELSE (mul_column(a, b, k, 0) + mul_carry(a, b, k - 1)) \div 256

\* Byte k of the exact product a * b
mul_byte(a, b, k) == (mul_column(a, b, k, 0) + mul_carry(a, b, k - 1)) % 256

\* a * b on usize: [overflow, value], value being the product modulo 2^64
usize_mul(a, b) ==
    [overflow |-> \E k \in UsizeBytes..(2 * UsizeBytes - 1) : mul_byte(a, b, k) # 0,
     value |-> [k \in 0..(UsizeBytes - 1) |-> mul_byte(a, b, k)]]

\* usize::is_power_of_two
usize_is_power_of_two(x) ==
    /\ Cardinality({k \in DOMAIN x : x[k] # 0}) = 1
    /\ \A k \in DOMAIN x : x[k] # 0 => is_power_of_two(x[k])

\* usize::ilog2 (x > 0)
usize_ilog2(x) ==
    LET top == CHOOSE k \in DOMAIN x : x[k] # 0 /\ \A j \in DOMAIN x : j > k => x[j] = 0
    IN 8 * top + ilog2(x[top])

\* parameters.carry_modulus().0 and parameters.message_modulus().0: the
\* parameter sets with the small moduli hold them as numbers, the ones with
\* moduli of up to 64 bits as their bytes.
carry_modulus_of(p) == IF "wide" \in DOMAIN p THEN p.carry_modulus ELSE usize(p.carry_modulus)
message_modulus_of(p) == IF "wide" \in DOMAIN p THEN p.message_modulus ELSE usize(p.message_modulus)

\* KeySwitchingKey::new. The result is [panicked, key]. The products of the
\* moduli are usize multiplications: they panic on overflow in a build with
\* overflow checks and wrap otherwise.
new(kp1, kp2) ==
    LET key_switching_key == new_key_switching_key(kp1, kp2)
        full_message_modulus_1 == usize_mul(carry_modulus_of(kp1), message_modulus_of(kp1))
        full_message_modulus_2 == usize_mul(carry_modulus_of(kp2), message_modulus_of(kp2))
    IN IF (full_message_modulus_1.overflow \/ full_message_modulus_2.overflow)
             /\ overflow_checks
       THEN [panicked |-> TRUE, key |-> NoKey]
       ELSE IF ~(usize_is_power_of_two(full_message_modulus_1.value)
                 /\ usize_is_power_of_two(full_message_modulus_2.value))
       THEN [panicked |-> TRUE, key |-> NoKey]
       ELSE LET nb_bits_1 == usize_ilog2(full_message_modulus_1.value)
                nb_bits_2 == usize_ilog2(full_message_modulus_2.value)
                diff == i8_sub(nb_bits_2, nb_bits_1)
            IN IF nb_bits_1 > I8Max \/ nb_bits_2 > I8Max
               THEN [panicked |-> TRUE, key |-> NoKey]
               ELSE IF (diff < I8Min \/ diff > I8Max) /\ overflow_checks
               THEN [panicked |-> TRUE, key |-> NoKey]
               ELSE [panicked |-> FALSE,
                     key |-> [key_switching_key |-> key_switching_key,
                              dest_server_key |-> kp2,
                              src_server_key |-> kp1,
                              cast_rshift |-> ((diff - I8Min) % 256) + I8Min]]

\* KeySwitchingKey::from_raw_parts. The result is [panicked, key].
from_raw_parts(key_switching_key, dest_server_key, src_server_key, cast_rshift) ==
    LET src_lwe_dimension == src_server_key.lwe_dimension
        dst_lwe_dimension == dest_server_key.lwe_dimension
    IN IF src_lwe_dimension # key_switching_key.input_key_lwe_dimension
       THEN [panicked |-> TRUE, key |-> NoKey]
       ELSE IF dst_lwe_dimension # key_switching_key.output_key_lwe_dimension
       THEN [panicked |-> TRUE, key |-> NoKey]
       ELSE IF src_server_key.ciphertext_modulus # dest_server_key.ciphertext_modulus
       THEN [panicked |-> TRUE, key |-> NoKey]
       ELSE IF key_switching_key.ciphertext_modulus # dest_server_key.ciphertext_modulus
       THEN [panicked |-> TRUE, key |-> NoKey]
       ELSE [panicked |-> FALSE,
             key |-> [key_switching_key |-> key_switching_key,
                      dest_server_key |-> dest_server_key,
                      src_server_key |-> src_server_key,
                      cast_rshift |-> cast_rshift]]

(***************************************************************************)
(* Key switching key: casting                                              *)
(***************************************************************************)
ks_step == [op |-> "keyswitch", key |-> "key_switching_key"]
lut_step(which, on) == [op |-> "lookup_table", key |-> which, on |-> on]

\* cast_into with the lookup table applied before the keyswitch in the
\* widening case too, on a copy of the source and by the source server key.
cast_into_lookup_table_first(self, c, ct_dest) ==
    LET i == self.cast_rshift
        mc == full_message_modulus(self.src_server_key)
        acc == [n \in 0..(mc - 1) |->
                   IF i > 0 THEN widen_fn(n, wrapped_shift(i))
                   ELSE narrow_fn(n, wrapped_shift(wrapping_neg(i)), c)]
        shifted_cipher == IF i = 0 THEN c
                          ELSE apply_lookup_table(self.src_server_key, c, acc)
    IN IF keyswitch_panics(self.key_switching_key, shifted_cipher.ct, ct_dest.ct)
       THEN [panicked |-> TRUE, dest |-> ct_dest, trace |-> <<>>]
       ELSE [panicked |-> FALSE,
             dest |-> [ct_dest EXCEPT
                         !.ct = keyswitch_lwe_ciphertext(
                                    self.key_switching_key, shifted_cipher.ct, ct_dest.ct)],
             trace |-> IF i = 0 THEN <<ks_step>>
                       ELSE <<lut_step("src_server_key", "copy of ct"), ks_step>>]

\* cast_into with the keyswitch done first in the narrowing case too: the
\* left-shift table is then applied to the destination, by the destination
\* server key.
cast_into_keyswitch_first(self, c, ct_dest) ==
    LET i == self.cast_rshift
        switched == [ct_dest EXCEPT
                       !.ct = keyswitch_lwe_ciphertext(self.key_switching_key, c.ct, ct_dest.ct)]
        mc == full_message_modulus(self.dest_server_key)
        acc == [n \in 0..(mc - 1) |->
                   IF i > 0 THEN widen_fn(n, wrapped_shift(i))
                   ELSE narrow_fn(n, wrapped_shift(wrapping_neg(i)), c)]
    IN IF keyswitch_panics(self.key_switching_key, c.ct, ct_dest.ct)
       THEN [panicked |-> TRUE, dest |-> ct_dest, trace |-> <<>>]
       ELSE IF i = 0
            THEN [panicked |-> FALSE, dest |-> switched, trace |-> <<ks_step>>]
            ELSE [panicked |-> FALSE,
                  dest |-> apply_lookup_table(self.dest_server_key, switched, acc),
                  trace |-> <<ks_step, lut_step("dest_server_key", "ct_dest")>>]

\* cast_into leaving in the destination the moduli of the source as well.
cast_into_copies_moduli(self, c, ct_dest) ==
    LET r == cast_into_lookup_table_first(self, c, ct_dest)
    IN [r EXCEPT !.dest = [@ EXCEPT !.message_modulus = c.message_modulus,
                                    !.carry_modulus = c.carry_modulus]]

\* KeySwitchingKey::cast_into. The result is [panicked, dest, trace]: whether
\* the call aborted, what ct_dest holds afterwards and the steps performed.
cast_into(self, c, ct_dest) ==
    LET i == self.cast_rshift
        switched == [ct_dest EXCEPT
                       !.ct = keyswitch_lwe_ciphertext(self.key_switching_key, c.ct, ct_dest.ct)]
    IN IF i = 0
       THEN IF keyswitch_panics(self.key_switching_key, c.ct, ct_dest.ct)
            THEN [panicked |-> TRUE, dest |-> ct_dest, trace |-> <<>>]
            ELSE [panicked |-> FALSE, dest |-> switched, trace |-> <<ks_step>>]
       ELSE IF i > 0
       THEN IF keyswitch_panics(self.key_switching_key, c.ct, ct_dest.ct)
            THEN [panicked |-> TRUE, dest |-> ct_dest, trace |-> <<>>]
            ELSE IF shift_overflows(i) /\ overflow_checks
            THEN [panicked |-> TRUE, dest |-> switched, trace |-> <<ks_step>>]
            ELSE LET mc == full_message_modulus(self.dest_server_key)
                     acc == [n \in 0..(mc - 1) |-> widen_fn(n, wrapped_shift(i))]
                 IN [panicked |-> FALSE,
                     dest |-> apply_lookup_table(self.dest_server_key, switched, acc),
                     trace |-> <<ks_step, lut_step("dest_server_key", "ct_dest")>>]
       ELSE IF i < 0
       THEN IF (neg_overflows(i) \/ shift_overflows(wrapping_neg(i))) /\ overflow_checks
            THEN [panicked |-> TRUE, dest |-> ct_dest, trace |-> <<>>]
            ELSE LET mc == full_message_modulus(self.src_server_key)
                     acc == [n \in 0..(mc - 1) |->
                                narrow_fn(n, wrapped_shift(wrapping_neg(i)), c)]
                     shifted_cipher == apply_lookup_table(self.src_server_key, c, acc)
                 IN IF keyswitch_panics(self.key_switching_key, shifted_cipher.ct,
                                        ct_dest.ct)
                    THEN [panicked |-> TRUE, dest |-> ct_dest,
                          trace |-> <<lut_step("src_server_key", "copy of ct")>>]
                    ELSE [panicked |-> FALSE,
                          dest |-> [ct_dest EXCEPT
                                      !.ct = keyswitch_lwe_ciphertext(
                                                 self.key_switching_key,
                                                 shifted_cipher.ct, ct_dest.ct)],
                          trace |-> <<lut_step("src_server_key", "copy of ct"), ks_step>>]
       ELSE [panicked |-> TRUE, dest |-> ct_dest, trace |-> <<"unreachable">>]

\* cast returning the ciphertext with the moduli of the source.
cast_keeps_source_moduli(self, c) ==
    LET ret == create_trivial(self.dest_server_key, 0)
        r == cast_into(self, c, ret)
    IN [r EXCEPT !.dest = [@ EXCEPT !.message_modulus = c.message_modulus,
                                    !.carry_modulus = c.carry_modulus]]

\* KeySwitchingKey::cast. The result is as for cast_into; dest is the value returned.
cast(self, c) ==
    LET ret == create_trivial(self.dest_server_key, 0)
    IN cast_into(self, c, ret)

(***************************************************************************)
(* Key switching key: state machine                                        *)
(***************************************************************************)
\* cast_rshift values handed to from_raw_parts: the i8 extremes, the values
\* around the u64 bit width and the small ones.
RawShifts == {I8Min, 0 - U64Bits, 1 - U64Bits, U64Bits - 1, U64Bits, I8Max} \cup (-3..3)

InitKS ==
    /\ overflow_checks \in BOOLEAN
    /\ key_pair_1 \in ParamSets
    /\ key_pair_2 \in ParamSets
    /\ ksk = NoKey
    /\ ksk_state = "none"
    /\ cleartext = 0
    /\ src_ct = NoCt
    /\ dst_ct = NoCt
    /\ cast_state = "idle"
    /\ cast_trace = <<>>
    /\ src_before = NoCt
    /\ dst_before = NoCt
    /\ decrypted = 0
    /\ tu_bits = 0
    /\ tu_dist = NoDist
    /\ tu_state = "unused"
    /\ tu_r = 0
    /\ tu_hist = << >>
    /\ tu_last = NoCall
    /\ g_secret_key = NoKey
    /\ g_plaintext_list = << >>
    /\ g_noise_parameters = 0
    /\ g_generator_0 = NoCall
    /\ run = << >>

ctorUnchanged == UNCHANGED <<overflow_checks, key_pair_1, key_pair_2, cleartext, src_ct,
                             dst_ct, cast_state, cast_trace, src_before, dst_before,
                             decrypted, tuVars, glweVars>>

\* KeySwitchingKey::new((ck1, sk1), (ck2, sk2), params)
KS_New ==
    /\ ksk_state = "none"
    /\ LET r == new(key_pair_1, key_pair_2)
       IN /\ ksk' = r.key
          /\ ksk_state' = IF r.panicked THEN "ctor_panic" ELSE "new"
    /\ ctorUnchanged

\* KeySwitchingKey::from_raw_parts(key_switching_key, dest_server_key, src_server_key, cast_rshift)
KS_FromRawParts ==
    /\ ksk_state = "none"
    /\ \E k \in {new_key_switching_key(key_pair_1, key_pair_2),
                 new_key_switching_key(key_pair_2, key_pair_1)},
          d \in {key_pair_1, key_pair_2},
          sr \in {key_pair_1, key_pair_2},
          i \in RawShifts :
          LET r == from_raw_parts(k, d, sr, i)
          IN /\ ksk' = r.key
             /\ ksk_state' = IF r.panicked THEN "ctor_panic" ELSE "from_raw_parts"
    /\ ctorUnchanged

\* The message_modulus and carry_modulus a ciphertext handed to cast_into may
\* carry: those of the parameters p it was encrypted under, or other ones.
SourceTags(p) == {<<p.message_modulus, p.carry_modulus>>, <<2, 2>>, <<3, 5>>}

\* The source client encrypts a message-and-carry value under the source
\* parameters; the ciphertext reaches the cast with some moduli as its tags.
KS_Encrypt ==
    /\ ksk_state \in {"new", "from_raw_parts"}
    /\ cast_state = "idle"
    /\ \E m \in 0..(full_message_modulus(ksk.src_server_key) - 1),
          tags \in SourceTags(ksk.src_server_key) :
          /\ cleartext' = m
          /\ src_ct' = [encrypt(ksk.src_server_key, m) EXCEPT
                           !.message_modulus = tags[1], !.carry_modulus = tags[2]]
    /\ cast_state' = "encrypted"
    /\ UNCHANGED <<overflow_checks, key_pair_1, key_pair_2, ksk, ksk_state, dst_ct,
                   cast_trace, src_before, dst_before, decrypted, tuVars, glweVars>>

\* ksk.cast_into(&src, &mut dst) on a destination created by the destination server key.
KS_CastInto ==
    /\ cast_state = "encrypted"
    /\ \E v \in {0, 1} :
          LET d == create_trivial(ksk.dest_server_key, v)
              r == cast_into(ksk, src_ct, d)
          IN /\ dst_before' = d
             /\ dst_ct' = r.dest
             /\ cast_trace' = r.trace
             /\ cast_state' = IF r.panicked THEN "cast_panic" ELSE "cast_into"
    /\ src_before' = src_ct
    /\ UNCHANGED <<overflow_checks, key_pair_1, key_pair_2, ksk, ksk_state, cleartext,
                   src_ct, decrypted, tuVars, glweVars>>

\* let dst = ksk.cast(&src)
KS_Cast ==
    /\ cast_state = "encrypted"
    /\ LET r == cast(ksk, src_ct)
       IN /\ dst_ct' = r.dest
          /\ cast_trace' = r.trace
          /\ cast_state' = IF r.panicked THEN "cast_panic" ELSE "cast"
    /\ dst_before' = NoCt
    /\ src_before' = src_ct
    /\ UNCHANGED <<overflow_checks, key_pair_1, key_pair_2, ksk, ksk_state, cleartext,
                   src_ct, decrypted, tuVars, glweVars>>

\* The destination client decrypts the cast ciphertext (message and carry).
KS_Decrypt ==
    /\ cast_state \in {"cast_into", "cast"}
    /\ dst_ct.ct.under = ksk.dest_server_key.id
    /\ decrypted' = decrypt_message_and_carry(ksk.dest_server_key, dst_ct)
    /\ cast_state' = IF cast_state = "cast" THEN "decrypted_cast" ELSE "decrypted_cast_into"
    /\ UNCHANGED <<overflow_checks, key_pair_1, key_pair_2, ksk, ksk_state, cleartext,
                   src_ct, dst_ct, cast_trace, src_before, dst_before, tuVars,
                   glweVars>>

NextKS ==
    \/ KS_New
    \/ KS_FromRawParts
    \/ KS_Encrypt
    \/ KS_CastInto
    \/ KS_Cast
    \/ KS_Decrypt

(***************************************************************************)
(* Key switching key: construction over the whole range of the moduli.     *)
(* MessageModulus and CarryModulus wrap a usize each; new is called here   *)
(* on parameter sets whose moduli use up to the 64 bits.                   *)
(***************************************************************************)
\* 0x5555555555555556: three times this value is 2^64 + 2
ThirdOfUsize == [k \in 0..(UsizeBytes - 1) |-> IF k = 0 THEN 86 ELSE 85]

\* Parameter sets with a full message modulus of 1, of 2^63 (the largest a
\* usize can hold as a power of two), of 2^64, of 3 * 2^32 and of 2^64 + 2.
WideParamSets ==
    { [id |-> "0_0", message_modulus |-> usize(1), carry_modulus |-> usize(1),
       lwe_dimension |-> 1, ciphertext_modulus |-> "native", wide |-> TRUE],
      [id |-> "31_32", message_modulus |-> usize_pow2(31), carry_modulus |-> usize_pow2(32),
       lwe_dimension |-> 2, ciphertext_modulus |-> "native", wide |-> TRUE],
      [id |-> "32_32", message_modulus |-> usize_pow2(32), carry_modulus |-> usize_pow2(32),
       lwe_dimension |-> 2, ciphertext_modulus |-> "native", wide |-> TRUE],
      [id |-> "3x32", message_modulus |-> usize(3), carry_modulus |-> usize_pow2(32),
       lwe_dimension |-> 1, ciphertext_modulus |-> "native", wide |-> TRUE],
      [id |-> "3xw", message_modulus |-> usize(3), carry_modulus |-> ThirdOfUsize,
       lwe_dimension |-> 1, ciphertext_modulus |-> "native", wide |-> TRUE] }

InitNew ==
    /\ overflow_checks \in BOOLEAN
    /\ key_pair_1 \in ParamSets \cup WideParamSets
    /\ key_pair_2 \in ParamSets \cup WideParamSets
    /\ ksk = NoKey
    /\ ksk_state = "none"
    /\ cleartext = 0
    /\ src_ct = NoCt
    /\ dst_ct = NoCt
    /\ cast_state = "unused"
    /\ cast_trace = <<>>
    /\ src_before = NoCt
    /\ dst_before = NoCt
    /\ decrypted = 0
    /\ tu_bits = 0
    /\ tu_dist = NoDist
    /\ tu_state = "unused"
    /\ tu_r = 0
    /\ tu_hist = << >>
    /\ tu_last = NoCall
    /\ g_secret_key = NoKey
    /\ g_plaintext_list = << >>
    /\ g_noise_parameters = 0
    /\ g_generator_0 = NoCall
    /\ run = << >>

NextNew == KS_New


(***************************************************************************)
(* TUniform: scalars                                                       *)
(*                                                                         *)
(* An unsigned scalar of W bits is a function from byte significance       *)
(* (0 = least significant) to a byte, so that the five widths 8..128 are   *)
(* kept exactly.                                                           *)
(***************************************************************************)
\* The scalar types the sampler is implemented for.
Widths == {8, 16, 32, 64, 128}

\* Largest bound_log2 whose 2^(bound_log2 + 2) draws are enumerated.
MaxBoundLog2 == 7

U8Bits == 8

size_of(W) == W \div U8Bits

Bit(a, t) == (a \div (2 ^ t)) % 2

ByteAnd(a, b) ==
    Bit(a, 0) * Bit(b, 0) + 2 * Bit(a, 1) * Bit(b, 1) + 4 * Bit(a, 2) * Bit(b, 2)
    + 8 * Bit(a, 3) * Bit(b, 3) + 16 * Bit(a, 4) * Bit(b, 4) + 32 * Bit(a, 5) * Bit(b, 5)
    + 64 * Bit(a, 6) * Bit(b, 6) + 128 * Bit(a, 7) * Bit(b, 7)

Digit(x, k) == IF k \in DOMAIN x THEN x[k] ELSE 0

\* <$T>::MAX
max_scalar(W) == [k \in 0..(size_of(W) - 1) |-> 255]

\* The scalar 1
one_scalar(W) == [k \in 0..(size_of(W) - 1) |-> IF k = 0 THEN 1 ELSE 0]

\* x >> s for 0 <= s < W
scalar_shr(x, s) ==
    LET a == s \div 8
        r == s % 8
    IN [k \in DOMAIN x |->
          (Digit(x, k + a) \div (2 ^ r)) + (Digit(x, k + a + 1) % (2 ^ r)) * (2 ^ (8 - r))]

\* x << s for 0 <= s < W
scalar_shl(x, s) ==
    LET a == s \div 8
        r == s % 8
    IN [k \in DOMAIN x |->
          ((Digit(x, k - a) * (2 ^ r)) % 256) + (Digit(x, k - a - 1) \div (2 ^ (8 - r)))]

\* x & y
scalar_and(x, y) == [k \in DOMAIN x |-> ByteAnd(x[k], y[k])]

\* x.wrapping_add(y): the carry into byte k comes from the closest lower byte
\* that overflows, if every byte in between is saturated.
carry_into(x, y, k) ==
    \E t \in 0..(k - 1) :
        /\ x[t] + y[t] > 255
        /\ \A u \in (t + 1)..(k - 1) : x[u] + y[u] = 255

wrapping_add(x, y) ==
    [k \in DOMAIN x |-> (x[k] + y[k] + (IF carry_into(x, y, k) THEN 1 ELSE 0)) % 256]

\* x.wrapping_sub(y): the borrow into byte k comes from the closest lower byte
\* where x is smaller, if the bytes in between are equal.
borrow_into(x, y, k) ==
    \E t \in 0..(k - 1) :
        /\ x[t] < y[t]
        /\ \A u \in (t + 1)..(k - 1) : x[u] = y[u]

wrapping_sub(x, y) ==
    [k \in DOMAIN x |-> (x[k] - y[k] - (IF borrow_into(x, y, k) THEN 1 ELSE 0)) % 256]

\* <$T>::from_le_bytes(buf): the first byte of the array is the least significant.
\* The bytes taken with the first one as the most significant.
from_be_bytes(buf) == [k \in 0..(Len(buf) - 1) |-> buf[Len(buf) - k]]

\* <$T>::from_le_bytes(buf): byte j of the buffer has significance j
from_le_bytes(buf) == [k \in 0..(Len(buf) - 1) |-> buf[k + 1]]

\* u32::div_ceil
div_ceil(a, b) == (a + b - 1) \div b

(***************************************************************************)
(* TUniform: new and generate_one                                          *)
(***************************************************************************)
\* bound_log2 is a u32. A u32 is held as its two 16-bit halves [hi, lo], so
\* that every value up to u32::MAX is represented exactly.
U32Bits == 32
U32Half == 2 ^ (U32Bits \div 2)

\* The u32 of value n, for n below 2^31
u32(n) == [hi |-> n \div U32Half, lo |-> n % U32Half]

\* u32::MAX - d, for d below 2^16
u32_max_minus(d) == [hi |-> U32Half - 1, lo |-> U32Half - 1 - d]

\* The value of a u32 below 2^31
u32_value(u) == u.hi * U32Half + u.lo

\* a + n on u32, for n below 2^16: [overflow, value], value being the wrapped sum
u32_add(a, n) ==
    LET lo == a.lo + n
        hi == a.hi + (lo \div U32Half)
    IN [overflow |-> hi >= U32Half,
        value |-> [hi |-> hi % U32Half, lo |-> lo % U32Half]]

\* (u as usize) <= n, for n below 2^16
as_usize_le(u, n) == u.hi = 0 /\ u.lo <= n

\* The amount a shift by u moves a W-bit scalar without overflow checks:
\* u mod W, which is lo mod W since W divides 2^16
masked_shift(u, W) == u.lo % W

\* TUniform::new(bound_log2). The result is [panicked, dist]. The sum
\* bound_log2 + 2 is a u32 addition: it panics on overflow in a build with
\* overflow checks and wraps otherwise.
tuniform_new(bound_log2, W) ==
    LET sum == u32_add(bound_log2, 2)
    IN IF sum.overflow /\ overflow_checks
       THEN [panicked |-> TRUE, dist |-> NoDist]
       ELSE IF ~as_usize_le(sum.value, W)
            THEN [panicked |-> TRUE, dist |-> NoDist]
            ELSE [panicked |-> FALSE, dist |-> [bound_log2 |-> bound_log2]]

\* buf.iter_mut().take(required_bytes).for_each(|a| *a = generator.generate_next())
\* on a generator whose next bytes are stream.
fill_buf(buf, required_bytes, stream) ==
    [j \in 1..Len(buf) |-> IF j <= required_bytes THEN stream[j] ELSE buf[j]]

\* The fold without the addition of the bit shifted out: a uniform value over
\* 2^(bound_log2 + 1) values, without the upper endpoint.
fold_and_center_no_carry(native_int_random, mod_mask, bound_log2, W) ==
    wrapping_sub(scalar_shr(scalar_and(native_int_random, mod_mask), 1),
                 scalar_shl(one_scalar(W), bound_log2))

\* let mut candidate = native & mod_mask; let bit = candidate & 1;
\* candidate >>= 1; candidate = candidate.wrapping_add(bit);
\* candidate.wrapping_sub(1 << bound_log2)
fold_and_center(native_int_random, mod_mask, bound_log2, W) ==
    LET masked == scalar_and(native_int_random, mod_mask)
        bit_b_p_1 == scalar_and(masked, one_scalar(W))
        halved == scalar_shr(masked, 1)
        candidate_for_random == wrapping_add(halved, bit_b_p_1)
    IN wrapping_sub(candidate_for_random, scalar_shl(one_scalar(W), bound_log2))

\* let required_bits = bound_log2 + 2, a u32 addition. A distribution whose
\* sum overflows only exists in a build without overflow checks (see
\* tuniform_new), where the sum wraps.
required_bits_of(dist) == u32_value(u32_add(dist.bound_log2, 2).value)

\* RandomGenerable<TUniform<T>>::generate_one for T of W bits, on a generator
\* whose next bytes are stream. The result is [value, drawn, rest]: the sample,
\* the bytes taken from the generator and the generator's remaining bytes.
generate_one(stream, dist, W) ==
    LET bound_log2 == dist.bound_log2
        buf == [j \in 1..size_of(W) |-> 0]
        required_bits == required_bits_of(dist)
        required_bytes == div_ceil(required_bits, U8Bits)
        mod_mask == scalar_shr(max_scalar(W), (W - required_bits) % W)
        filled == fill_buf(buf, required_bytes, stream)
        native_int_random == from_le_bytes(filled)
    IN [value |-> fold_and_center(native_int_random, mod_mask,
                                  masked_shift(bound_log2, W), W),
        drawn |-> SubSeq(stream, 1, Min(required_bytes, Len(buf))),
        rest |-> SubSeq(stream, Min(required_bytes, Len(buf)) + 1, Len(stream))]

(***************************************************************************)
(* TUniform: state machine. After new, generate_one is called once for     *)
(* every value r of the low bound_log2 + 2 bits of the drawn bytes, in     *)
(* increasing order, with the unused high bits of the drawn bytes and the  *)
(* bytes that follow them in the generator chosen freely.                  *)
(***************************************************************************)
\* Fillings of the bits of the drawn bytes above the low bound_log2 + 2 ones.
HighFills == {0, 1, 5}

\* Bytes the generator holds after the ones a sample needs.
Trailing == <<165, 255>>

\* The generator's next bytes when the low `bits` bits drawn are r and the bits
\* above them, up to the end of the last byte needed, are those of `fill`.
stream_for(r, fill, bits) ==
    LET nbytes == div_ceil(bits, U8Bits)
        full == r + (2 ^ bits) * (fill % (2 ^ (8 * nbytes - bits)))
    IN [j \in 1..nbytes |-> (full \div (2 ^ (8 * (j - 1)))) % 256] \o Trailing

InitTU ==
    /\ tu_bits \in Widths
    /\ tu_dist = NoDist
    /\ tu_state = "init"
    /\ tu_r = 0
    /\ tu_hist = << >>
    /\ tu_last = NoCall
    /\ overflow_checks \in BOOLEAN
    /\ key_pair_1 = NoKey
    /\ key_pair_2 = NoKey
    /\ ksk = NoKey
    /\ ksk_state = "unused"
    /\ cleartext = 0
    /\ src_ct = NoCt
    /\ dst_ct = NoCt
    /\ cast_state = "unused"
    /\ cast_trace = << >>
    /\ src_before = NoCt
    /\ dst_before = NoCt
    /\ decrypted = 0
    /\ g_secret_key = NoKey
    /\ g_plaintext_list = << >>
    /\ g_noise_parameters = 0
    /\ g_generator_0 = NoCall
    /\ run = << >>

\* The bound_log2 given to new: the small ones, whose draws are enumerated,
\* the widths themselves, a value above 2^16 and the last three u32.
BoundLog2s ==
    {u32(b) : b \in 0..MaxBoundLog2} \cup {u32(W - 2) : W \in Widths}
        \cup {u32(W - 1) : W \in Widths}
        \cup {u32(U32Half), u32_max_minus(2), u32_max_minus(1), u32_max_minus(0)}

\* TUniform::<T>::new(bound_log2)
TU_New ==
    /\ tu_state = "init"
    /\ \E b \in BoundLog2s :
          LET r == tuniform_new(b, tu_bits)
          IN /\ tu_dist' = r.dist
             /\ tu_state' = IF r.panicked THEN "new_panic" ELSE "ready"
             /\ tu_last' = [bound_log2 |-> b]
    /\ UNCHANGED <<tu_bits, tu_r, tu_hist, ksVars, glweVars>>

\* T::generate_one(generator, dist) with the generator about to give r, for
\* the distributions whose draws are enumerated
TU_GenerateOne ==
    /\ tu_state = "ready"
    /\ required_bits_of(tu_dist) <= MaxBoundLog2 + 2
    /\ tu_r < 2 ^ required_bits_of(tu_dist)
    /\ \E fill \in HighFills :
          \E g \in {generate_one(stream_for(tu_r, fill, required_bits_of(tu_dist)),
                                 tu_dist, tu_bits)} :
             /\ tu_last' = [bound_log2 |-> tu_last.bound_log2,
                            r |-> tu_r, drawn |-> g.drawn, rest |-> g.rest,
                            value |-> g.value]
             /\ tu_hist' = IF g.value \in DOMAIN tu_hist
                           THEN [tu_hist EXCEPT ![g.value] = @ + 1]
                           ELSE tu_hist @@ (g.value :> 1)
    /\ tu_r' = tu_r + 1
    /\ UNCHANGED <<tu_bits, tu_dist, tu_state, ksVars, glweVars>>

NextTU ==
    \/ TU_New
    \/ TU_GenerateOne

(***************************************************************************)
(* GLWE encryption: entities                                               *)
(*                                                                         *)
(* A torus scalar is an integer modulo 2^ScalarBits. A GlweSecretKey is    *)
(* [data, polynomial_size], a GlweCiphertext is [data, polynomial_size]    *)
(* with the mask polynomials first and the body last, a                    *)
(* GlweCiphertextList is [data, glwe_size, polynomial_size] with its       *)
(* ciphertexts back to back, a PlaintextList is its sequence of scalars.   *)
(***************************************************************************)
\* Bits of the scalar type (64 in the documented examples).
ScalarBits == 6

MaxGlweDimension == 2
MaxPolynomialSize == 2
MaxCiphertextCount == 2

ScalarModulus == 2 ^ ScalarBits

RECURSIVE SeqSum(_)
SeqSum(s) == IF s = << >> THEN 0 ELSE Head(s) + SeqSum(Tail(s))

\* a.wrapping_add(b), a.wrapping_sub(b) on torus scalars
torus_wrapping_add(a, b) == (a + b) % ScalarModulus
torus_wrapping_sub(a, b) == (a - b) % ScalarModulus

glwe_dimension(key) == Len(key.data) \div key.polynomial_size
glwe_size(ct) == Len(ct.data) \div ct.polynomial_size
glwe_ciphertext_size(size, polynomial_size) == size * polynomial_size
glwe_ciphertext_count(list) ==
    Len(list.data) \div glwe_ciphertext_size(list.glwe_size, list.polynomial_size)

\* GlweCiphertext::get_mask_and_body / get_mut_mask_and_body
get_mask(ct) == SubSeq(ct.data, 1, Len(ct.data) - ct.polynomial_size)
get_body(ct) == SubSeq(ct.data, Len(ct.data) - ct.polynomial_size + 1, Len(ct.data))

\* GlweCiphertextList::get(i) / the i-th item of iter_mut(), i counted from 0
list_get(list, i) ==
    LET size == glwe_ciphertext_size(list.glwe_size, list.polynomial_size)
    IN [data |-> SubSeq(list.data, i * size + 1, (i + 1) * size),
        polynomial_size |-> list.polynomial_size]

\* The list after its i-th ciphertext was written through the mutable view
list_set(list, i, ct) ==
    LET size == glwe_ciphertext_size(list.glwe_size, list.polynomial_size)
    IN [list EXCEPT !.data =
           [j \in 1..Len(list.data) |->
               IF j > i * size /\ j <= (i + 1) * size THEN ct.data[j - i * size] ELSE @[j]]]

\* The i-th item of PlaintextList::chunks_exact(n), i counted from 0
chunk(plaintexts, n, i) == SubSeq(plaintexts, i * n + 1, (i + 1) * n)

\* The number of items of chunks_exact(n)
chunks_exact_count(plaintexts, n) == Len(plaintexts) \div n

(***************************************************************************)
(* GLWE encryption: the random generator and the polynomial algorithms     *)
(*                                                                         *)
(* An EncryptionRandomGenerator is a mask generator and a noise generator; *)
(* each is a seed and the number of scalars it has given so far, and what  *)
(* it gives next is a function of both.                                    *)
(***************************************************************************)
new_generator(mask_seed, mask_pos, noise_seed, noise_pos) ==
    [mask |-> [seed |-> mask_seed, pos |-> mask_pos],
     noise |-> [seed |-> noise_seed, pos |-> noise_pos]]

\* The pos-th uniform scalar of the mask generator seeded with seed
mask_scalar(seed, pos) == (seed * 11 + pos * 5 + pos * pos * 3 + 1) % ScalarModulus

\* The pos-th noise sample of the noise generator seeded with seed: a value of
\* {-2^noise_parameters, ..., 2^noise_parameters} as a torus scalar
noise_scalar(seed, pos, noise_parameters) ==
    LET r == (seed * 7 + pos * 5 + pos * pos * 3 + (pos \div 2)) % (2 ^ (noise_parameters + 2))
    IN ((r \div 2) + (r % 2) - 2 ^ noise_parameters) % ScalarModulus

\* generator.fill_slice_with_random_mask(slice) for a slice of len scalars.
\* The result is [slice, generator, draws].
fill_slice_with_random_mask(generator, len) ==
    LET g == generator.mask
    IN [slice |-> [j \in 1..len |-> mask_scalar(g.seed, g.pos + j - 1)],
        generator |-> [generator EXCEPT !.mask.pos = @ + len],
        draws |-> [j \in 1..len |->
                     [gen |-> "mask", pos |-> g.pos + j - 1,
                      value |-> mask_scalar(g.seed, g.pos + j - 1)]]]

\* The samples the noise generator gives for a slice of len scalars
random_noise(generator, len, noise_parameters) ==
    LET g == generator.noise
    IN [slice |-> [j \in 1..len |-> noise_scalar(g.seed, g.pos + j - 1, noise_parameters)],
        generator |-> [generator EXCEPT !.noise.pos = @ + len],
        draws |-> [j \in 1..len |->
                     [gen |-> "noise", pos |-> g.pos + j - 1,
                      value |-> noise_scalar(g.seed, g.pos + j - 1, noise_parameters)]]]

\* generator.fill_slice_with_random_noise(slice, noise_parameters): every
\* scalar of the slice is overwritten with a sample.
fill_slice_with_random_noise(generator, slice, noise_parameters) ==
    random_noise(generator, Len(slice), noise_parameters)

\* generator.unsigned_torus_slice_wrapping_add_random_noise_assign(slice,
\* noise_parameters): a sample is added to every scalar of the slice.
unsigned_torus_slice_wrapping_add_random_noise_assign(generator, slice, noise_parameters) ==
    LET n == random_noise(generator, Len(slice), noise_parameters)
    IN [n EXCEPT !.slice = [j \in 1..Len(slice) |-> torus_wrapping_add(slice[j], @[j])]]

\* polynomial_wrapping_add_assign(lhs, rhs)
polynomial_wrapping_add_assign(lhs, rhs) ==
    [j \in 1..Len(lhs) |-> torus_wrapping_add(lhs[j], rhs[j])]

\* Coefficient j (from 0) of the sum over the polynomials p of
\* poly_list1[p] * poly_list2[p] in Z[X]/(X^n + 1)
multisum_coefficient(poly_list1, poly_list2, n, j) ==
    SeqSum([t \in 1..Len(poly_list1) |->
               LET p == (t - 1) \div n
                   i == (t - 1) % n
                   s == poly_list2[p * n + ((j - i) % n) + 1]
               IN IF i > j THEN 0 - poly_list1[t] * s ELSE poly_list1[t] * s])

\* polynomial_wrapping_add_multisum_assign(output, poly_list1, poly_list2)
polynomial_wrapping_add_multisum_assign(output, poly_list1, poly_list2) ==
    [j \in 1..Len(output) |->
        (output[j] + multisum_coefficient(poly_list1, poly_list2, Len(output), j - 1))
            % ScalarModulus]

\* polynomial_wrapping_sub_multisum_assign(output, poly_list1, poly_list2)
polynomial_wrapping_sub_multisum_assign(output, poly_list1, poly_list2) ==
    [j \in 1..Len(output) |->
        (output[j] - multisum_coefficient(poly_list1, poly_list2, Len(output), j - 1))
            % ScalarModulus]

(***************************************************************************)
(* GLWE encryption: the algorithms of glwe_encryption.rs                   *)
(*                                                                         *)
(* An algorithm that writes through a &mut argument returns the new value  *)
(* of that argument; panicked tells that an assertion failed, in which     *)
(* case nothing was written and nothing was drawn.                         *)
(***************************************************************************)
\* encrypt_glwe_ciphertext_assign with the body overwritten by the noise
\* instead of the noise added to it.
encrypt_glwe_ciphertext_assign_overwrite(glwe_secret_key, output, noise_parameters, generator) ==
    IF \/ glwe_size(output) - 1 # glwe_dimension(glwe_secret_key)
       \/ output.polynomial_size # glwe_secret_key.polynomial_size
    THEN [panicked |-> TRUE, output |-> output, generator |-> generator, draws |-> << >>]
    ELSE
    LET m == fill_slice_with_random_mask(generator, Len(get_mask(output)))
        e == fill_slice_with_random_noise(m.generator, get_body(output), noise_parameters)
    IN [panicked |-> FALSE,
        output |-> [output EXCEPT !.data =
                       m.slice \o polynomial_wrapping_add_multisum_assign(
                                      e.slice, m.slice, glwe_secret_key.data)],
        generator |-> e.generator,
        draws |-> m.draws \o e.draws]

\* encrypt_glwe_ciphertext_assign(glwe_secret_key, output, noise_parameters, generator)
encrypt_glwe_ciphertext_assign(glwe_secret_key, output, noise_parameters, generator) ==
    IF \/ glwe_size(output) - 1 # glwe_dimension(glwe_secret_key)
       \/ output.polynomial_size # glwe_secret_key.polynomial_size
    THEN [panicked |-> TRUE, output |-> output, generator |-> generator, draws |-> << >>]
    ELSE LET mask == get_mask(output)
             body == get_body(output)
             m == fill_slice_with_random_mask(generator, Len(mask))
             e == unsigned_torus_slice_wrapping_add_random_noise_assign(
                      m.generator, body, noise_parameters)
             b == polynomial_wrapping_add_multisum_assign(
                      e.slice, m.slice, glwe_secret_key.data)
         IN [panicked |-> FALSE,
             output |-> [output EXCEPT !.data = m.slice \o b],
             generator |-> e.generator,
             draws |-> m.draws \o e.draws]

\* encrypt_glwe_ciphertext with the noise drawn before the mask.
encrypt_glwe_ciphertext_noise_first(glwe_secret_key, plaintexts, output, noise_parameters, generator) ==
    IF \/ output.polynomial_size # Len(plaintexts)
       \/ glwe_size(output) - 1 # glwe_dimension(glwe_secret_key)
       \/ output.polynomial_size # glwe_secret_key.polynomial_size
    THEN [panicked |-> TRUE, output |-> output, generator |-> generator, draws |-> << >>]
    ELSE
    LET e == fill_slice_with_random_noise(generator, get_body(output), noise_parameters)
        m == fill_slice_with_random_mask(e.generator, Len(get_mask(output)))
    IN [panicked |-> FALSE,
        output |-> [output EXCEPT !.data =
                       m.slice \o polynomial_wrapping_add_multisum_assign(
                                      polynomial_wrapping_add_assign(e.slice, plaintexts),
                                      m.slice, glwe_secret_key.data)],
        generator |-> m.generator,
        draws |-> e.draws \o m.draws]

\* encrypt_glwe_ciphertext with the noise added to what the body held.
encrypt_glwe_ciphertext_keeps_body(glwe_secret_key, plaintexts, output, noise_parameters, generator) ==
    IF \/ output.polynomial_size # Len(plaintexts)
       \/ glwe_size(output) - 1 # glwe_dimension(glwe_secret_key)
       \/ output.polynomial_size # glwe_secret_key.polynomial_size
    THEN [panicked |-> TRUE, output |-> output, generator |-> generator, draws |-> << >>]
    ELSE
    LET m == fill_slice_with_random_mask(generator, Len(get_mask(output)))
        e == unsigned_torus_slice_wrapping_add_random_noise_assign(
                 m.generator, get_body(output), noise_parameters)
    IN [panicked |-> FALSE,
        output |-> [output EXCEPT !.data =
                       m.slice \o polynomial_wrapping_add_multisum_assign(
                                      polynomial_wrapping_add_assign(e.slice, plaintexts),
                                      m.slice, glwe_secret_key.data)],
        generator |-> e.generator,
        draws |-> m.draws \o e.draws]

\* encrypt_glwe_ciphertext with the sizes compared once the mask is filled.
encrypt_glwe_ciphertext_late_assert(glwe_secret_key, plaintexts, output, noise_parameters, generator) ==
    LET m == fill_slice_with_random_mask(generator, Len(get_mask(output)))
        filled == [output EXCEPT !.data = m.slice \o get_body(output)]
    IN IF \/ output.polynomial_size # Len(plaintexts)
          \/ glwe_size(output) - 1 # glwe_dimension(glwe_secret_key)
          \/ output.polynomial_size # glwe_secret_key.polynomial_size
       THEN [panicked |-> TRUE, output |-> filled, generator |-> m.generator,
             draws |-> m.draws]
       ELSE encrypt_glwe_ciphertext_keeps_body(
                glwe_secret_key, plaintexts,
                [output EXCEPT !.data = get_mask(output) \o [j \in 1..Len(get_body(output)) |-> 0]],
                noise_parameters, generator)

\* encrypt_glwe_ciphertext with the noise samples, drawn for the body, added
\* to the first polynomial of the mask as well.
encrypt_glwe_ciphertext_noise_on_mask(glwe_secret_key, plaintexts, output, noise_parameters, generator) ==
    IF \/ output.polynomial_size # Len(plaintexts)
       \/ glwe_size(output) - 1 # glwe_dimension(glwe_secret_key)
       \/ output.polynomial_size # glwe_secret_key.polynomial_size
    THEN [panicked |-> TRUE, output |-> output, generator |-> generator, draws |-> << >>]
    ELSE
    LET m == fill_slice_with_random_mask(generator, Len(get_mask(output)))
        e == fill_slice_with_random_noise(m.generator, get_body(output), noise_parameters)
        noisy == [j \in 1..Len(m.slice) |->
                     IF j <= Len(e.slice) THEN torus_wrapping_add(m.slice[j], e.slice[j])
                     ELSE m.slice[j]]
    IN [panicked |-> FALSE,
        output |-> [output EXCEPT !.data =
                       noisy \o polynomial_wrapping_add_multisum_assign(
                                    polynomial_wrapping_add_assign(e.slice, plaintexts),
                                    noisy, glwe_secret_key.data)],
        generator |-> e.generator,
        draws |-> m.draws \o e.draws]

\* encrypt_glwe_ciphertext(glwe_secret_key, input_plaintext_list,
\*                         output_glwe_ciphertext, noise_parameters, generator)
encrypt_glwe_ciphertext(glwe_secret_key, plaintexts, output, noise_parameters, generator) ==
    IF \/ output.polynomial_size # Len(plaintexts)
       \/ glwe_size(output) - 1 # glwe_dimension(glwe_secret_key)
       \/ output.polynomial_size # glwe_secret_key.polynomial_size
    THEN [panicked |-> TRUE, output |-> output, generator |-> generator, draws |-> << >>]
    ELSE LET mask == get_mask(output)
             body == get_body(output)
             m == fill_slice_with_random_mask(generator, Len(mask))
             e == fill_slice_with_random_noise(m.generator, body, noise_parameters)
             p == polynomial_wrapping_add_assign(e.slice, plaintexts)
             b == polynomial_wrapping_add_multisum_assign(p, m.slice, glwe_secret_key.data)
         IN [panicked |-> FALSE,
             output |-> [output EXCEPT !.data = m.slice \o b],
             generator |-> e.generator,
             draws |-> m.draws \o e.draws]

\* The draws of one call, each with the index of the ciphertext it was for
for_ciphertext(draws, i) ==
    [j \in 1..Len(draws) |->
        [gen |-> draws[j].gen, pos |-> draws[j].pos, value |-> draws[j].value, ct |-> i]]

\* The loop of encrypt_glwe_ciphertext_list from its i-th iteration on:
\* for (ciphertext, encoded) in list.iter_mut().zip(plaintexts.chunks_exact(n))
RECURSIVE encrypt_each(_, _, _, _, _, _, _)
encrypt_each(glwe_secret_key, plaintexts, list, noise_parameters, generator, draws, i) ==
    IF i >= Min(glwe_ciphertext_count(list),
                chunks_exact_count(plaintexts, list.polynomial_size))
    THEN [panicked |-> FALSE, output |-> list, generator |-> generator, draws |-> draws]
    ELSE LET r == encrypt_glwe_ciphertext(glwe_secret_key,
                                          chunk(plaintexts, list.polynomial_size, i),
                                          list_get(list, i), noise_parameters, generator)
         IN IF r.panicked
            THEN [panicked |-> TRUE, output |-> list, generator |-> generator,
                  draws |-> draws]
            ELSE encrypt_each(glwe_secret_key, plaintexts, list_set(list, i, r.output),
                              noise_parameters, r.generator,
                              draws \o for_ciphertext(r.draws, i), i + 1)

\* The list with its ciphertexts in the opposite order
reversed(list) ==
    LET size == glwe_ciphertext_size(list.glwe_size, list.polynomial_size)
        n == glwe_ciphertext_count(list)
    IN [list EXCEPT !.data =
           [j \in 1..Len(list.data) |-> @[(n - 1 - ((j - 1) \div size)) * size + ((j - 1) % size) + 1]]]

\* encrypt_glwe_ciphertext_list pairing the chunks with the ciphertexts taken
\* from the last one.
encrypt_glwe_ciphertext_list_reversed(glwe_secret_key, plaintexts, list, noise_parameters, generator) ==
    LET r == encrypt_each(glwe_secret_key, plaintexts, list, noise_parameters, generator, << >>, 0)
    IN [r EXCEPT !.output = reversed(@)]

\* encrypt_glwe_ciphertext_list(glwe_secret_key, input_plaintext_list,
\*                              output_glwe_ciphertext_list, noise_parameters, generator)
encrypt_glwe_ciphertext_list(glwe_secret_key, plaintexts, list, noise_parameters, generator) ==
    IF \/ list.polynomial_size * glwe_ciphertext_count(list) # Len(plaintexts)
       \/ list.glwe_size - 1 # glwe_dimension(glwe_secret_key)
       \/ list.polynomial_size # glwe_secret_key.polynomial_size
    THEN [panicked |-> TRUE, output |-> list, generator |-> generator, draws |-> << >>]
    ELSE encrypt_each(glwe_secret_key, plaintexts, list, noise_parameters, generator, << >>, 0)

\* decrypt_glwe_ciphertext returning the body as it is.
decrypt_glwe_ciphertext_body_only(glwe_secret_key, input_glwe_ciphertext, output_plaintext_list) ==
    [panicked |-> FALSE, output |-> get_body(input_glwe_ciphertext)]

\* decrypt_glwe_ciphertext with the multisum added to the body.
decrypt_glwe_ciphertext_adds_multisum(glwe_secret_key, input_glwe_ciphertext, output_plaintext_list) ==
    [panicked |-> FALSE,
     output |-> polynomial_wrapping_add_multisum_assign(
                    get_body(input_glwe_ciphertext), get_mask(input_glwe_ciphertext),
                    glwe_secret_key.data)]

\* decrypt_glwe_ciphertext(glwe_secret_key, input_glwe_ciphertext, output_plaintext_list)
decrypt_glwe_ciphertext(glwe_secret_key, input_glwe_ciphertext, output_plaintext_list) ==
    IF \/ Len(output_plaintext_list) # input_glwe_ciphertext.polynomial_size
       \/ glwe_dimension(glwe_secret_key) # glwe_size(input_glwe_ciphertext) - 1
       \/ glwe_secret_key.polynomial_size # input_glwe_ciphertext.polynomial_size
    THEN [panicked |-> TRUE, output |-> output_plaintext_list]
    ELSE LET mask == get_mask(input_glwe_ciphertext)
             body == get_body(input_glwe_ciphertext)
             copied == [j \in 1..Len(output_plaintext_list) |-> body[j]]
         IN [panicked |-> FALSE,
             output |-> polynomial_wrapping_sub_multisum_assign(
                            copied, mask, glwe_secret_key.data)]

\* The loop of decrypt_glwe_ciphertext_list from its i-th iteration on:
\* for (ciphertext, output_sublist) in list.iter().zip(output.chunks_exact_mut(n))
RECURSIVE decrypt_each(_, _, _, _)
decrypt_each(glwe_secret_key, list, output_plaintext_list, i) ==
    IF i >= Min(glwe_ciphertext_count(list),
                chunks_exact_count(output_plaintext_list, list.polynomial_size))
    THEN [panicked |-> FALSE, output |-> output_plaintext_list]
    ELSE LET n == list.polynomial_size
             r == decrypt_glwe_ciphertext(glwe_secret_key, list_get(list, i),
                                          chunk(output_plaintext_list, n, i))
         IN IF r.panicked
            THEN [panicked |-> TRUE, output |-> output_plaintext_list]
            ELSE decrypt_each(glwe_secret_key, list,
                              [j \in 1..Len(output_plaintext_list) |->
                                  IF j > i * n /\ j <= (i + 1) * n
                                  THEN r.output[j - i * n]
                                  ELSE output_plaintext_list[j]],
                              i + 1)

\* decrypt_glwe_ciphertext_list(glwe_secret_key, input_glwe_ciphertext_list,
\*                              output_plaintext_list)
decrypt_glwe_ciphertext_list(glwe_secret_key, input_glwe_ciphertext_list, output_plaintext_list) ==
    IF \/ Len(output_plaintext_list)
             # input_glwe_ciphertext_list.polynomial_size
                   * glwe_ciphertext_count(input_glwe_ciphertext_list)
       \/ glwe_dimension(glwe_secret_key) # input_glwe_ciphertext_list.glwe_size - 1
       \/ glwe_secret_key.polynomial_size # input_glwe_ciphertext_list.polynomial_size
    THEN [panicked |-> TRUE, output |-> output_plaintext_list]
    ELSE decrypt_each(glwe_secret_key, input_glwe_ciphertext_list, output_plaintext_list, 0)

\* trivially_encrypt_glwe_ciphertext leaving the mask as it was.
trivially_encrypt_glwe_ciphertext_keeps_mask(output, encoded) ==
    [panicked |-> FALSE, output |-> [output EXCEPT !.data = get_mask(output) \o encoded]]

\* trivially_encrypt_glwe_ciphertext(output, encoded)
trivially_encrypt_glwe_ciphertext(output, encoded) ==
    IF Len(encoded) # output.polynomial_size
    THEN [panicked |-> TRUE, output |-> output]
    ELSE LET mask == [j \in 1..Len(get_mask(output)) |-> 0]
             body == [j \in 1..Len(get_body(output)) |-> encoded[j]]
         IN [panicked |-> FALSE, output |-> [output EXCEPT !.data = mask \o body]]

\* GlweCiphertext::new(fill_with, glwe_size, polynomial_size)
new_glwe_ciphertext(fill_with, size, polynomial_size) ==
    [data |-> [j \in 1..glwe_ciphertext_size(size, polynomial_size) |-> fill_with],
     polynomial_size |-> polynomial_size]

\* allocate_and_trivially_encrypt_new_glwe_ciphertext(glwe_size, encoded)
allocate_and_trivially_encrypt_new_glwe_ciphertext(size, encoded) ==
    LET polynomial_size == Len(encoded)
        new_ct == new_glwe_ciphertext(0, size, polynomial_size)
    IN [new_ct EXCEPT !.data = get_mask(new_ct) \o encoded]

\* SignedDecomposer::new(DecompositionBaseLog(4), DecompositionLevelCount(1))
\*     .closest_representable(x): x rounded to its top 4 bits
closest_representable(x) ==
    (((x + 2 ^ (ScalarBits - 5)) % ScalarModulus) \div (2 ^ (ScalarBits - 4)))
        * (2 ^ (ScalarBits - 4))

\* The decoding of the documented examples: round, then shift right by W - 4
decode(x) == closest_representable(x) \div (2 ^ (ScalarBits - 4))

\* let encoded_msg = msg << (W - 4)
encoded_msg(msg) == (msg * 2 ^ (ScalarBits - 4)) % ScalarModulus

(***************************************************************************)
(* GLWE encryption: state machine                                          *)
(*                                                                         *)
(* A client holds a secret key, a plaintext list of n * N scalars, noise   *)
(* parameters and a generator state. Run 1 calls one of the algorithms on  *)
(* an output buffer it allocated, then decrypts; run 2 starts again from   *)
(* the same generator state on a buffer of its own, with other content.    *)
(***************************************************************************)
Runs == {1, 2}

\* Seeds of the secret keys: bit j of the seed is coefficient j of the key.
KeySeeds == {0, 173, 366}

\* generate_new_binary_glwe_secret_key(glwe_dimension, polynomial_size, generator)
new_binary_glwe_secret_key(seed, dimension, polynomial_size) ==
    [data |-> [j \in 1..(dimension * polynomial_size) |-> Bit(seed, j - 1)],
     polynomial_size |-> polynomial_size]

\* The messages of the documented encoding: 4 bits
Messages == 0..15

\* The plaintext lists of len scalars: a message encoded in every
\* coefficient, or scalars that differ from one coefficient to the next.
PlaintextLists(len) ==
    {[j \in 1..len |-> encoded_msg(msg)] : msg \in Messages}
        \cup {[j \in 1..len |-> (13 * j + 7) % ScalarModulus]}

\* Dispersions: samples within {-2^d, ..., 2^d}
NoiseParameters == {ScalarBits - 6, ScalarBits - 5}

\* A fresh generator pair, another one, and one that has already been used.
Generators == {new_generator(1, 0, 0, 0), new_generator(4, 0, 3, 0),
               new_generator(1, 2, 3, 5)}

\* What an output buffer of len scalars holds before the call
prior_content(fill, len) == [j \in 1..len |-> (fill * (17 * j + 3)) % ScalarModulus]

\* The buffers of run 1 are zeroed or hold other data, those of run 2 hold
\* yet other data.
PriorFills(r) == IF r = 1 THEN {0, 1} ELSE {2}

NoRun == [state |-> "idle", op |-> "none", calls |-> 0, before |-> << >>,
          output |-> << >>, generator |-> NoCall, draws |-> << >>, decrypted |-> << >>,
          encoded |-> << >>]

polynomial_size_of_run == g_secret_key.polynomial_size
glwe_size_of_run == glwe_dimension(g_secret_key) + 1
count_of_run == Len(g_plaintext_list) \div g_secret_key.polynomial_size

\* GlweCiphertextList::new(.., glwe_size, polynomial_size, count) holding fill
new_glwe_ciphertext_list(fill) ==
    [data |-> prior_content(fill, count_of_run * glwe_size_of_run * polynomial_size_of_run),
     glwe_size |-> glwe_size_of_run,
     polynomial_size |-> polynomial_size_of_run]

\* The shape that fits the key and the plaintext list of the run
fitting_shape ==
    [glwe_size |-> glwe_size_of_run, polynomial_size |-> polynomial_size_of_run,
     count |-> count_of_run]

\* The shapes of the buffers a caller hands to the encryptions: the fitting
\* one, and ones with another GLWE size, polynomial size or count. Run 2
\* repeats what run 1 did with success, on a fitting buffer.
BufferShapes(r) ==
    IF r = 1
    THEN {fitting_shape,
          [fitting_shape EXCEPT !.glwe_size = @ + 1],
          [fitting_shape EXCEPT !.glwe_size = @ - 1],
          [fitting_shape EXCEPT !.polynomial_size = @ + 1],
          [fitting_shape EXCEPT !.count = @ + 1]}
    ELSE {fitting_shape}

\* GlweCiphertextList::new(.., glwe_size, polynomial_size, count) holding fill
glwe_ciphertext_list_of_shape(fill, shape) ==
    [data |-> prior_content(fill, shape.count * shape.glwe_size * shape.polynomial_size),
     glwe_size |-> shape.glwe_size,
     polynomial_size |-> shape.polynomial_size]

\* The plaintext lists a caller hands to encrypt_glwe_ciphertext for the
\* first ciphertext: chunk 0, or by mistake the whole list
FirstPlaintexts(r) ==
    IF r = 1
    THEN {chunk(g_plaintext_list, polynomial_size_of_run, 0), g_plaintext_list}
    ELSE {chunk(g_plaintext_list, polynomial_size_of_run, 0)}

\* The only ciphertext of a list of one
as_ciphertext(list) == [data |-> list.data, polynomial_size |-> list.polynomial_size]

\* Run 2 starts once run 1 has encrypted.
MayStart(r) ==
    /\ run[r].state = "idle"
    /\ r = 2 => /\ run[1].state = "done"
                /\ run[1].op \in {"encrypt", "assign", "list"}

glweUnchanged == UNCHANGED <<g_secret_key, g_plaintext_list, g_noise_parameters,
                             g_generator_0, ksVars, tuVars>>

InitGlwe ==
    /\ \E dimension \in 1..MaxGlweDimension, polynomial_size \in 1..MaxPolynomialSize,
          count \in 1..MaxCiphertextCount :
          /\ g_secret_key \in
                 {new_binary_glwe_secret_key(seed, dimension, polynomial_size) :
                      seed \in KeySeeds}
          /\ g_plaintext_list \in PlaintextLists(count * polynomial_size)
    /\ g_noise_parameters \in NoiseParameters
    /\ g_generator_0 \in Generators
    /\ run = [r \in Runs |-> [NoRun EXCEPT !.generator = g_generator_0]]
    /\ overflow_checks = TRUE
    /\ key_pair_1 = NoKey
    /\ key_pair_2 = NoKey
    /\ ksk = NoKey
    /\ ksk_state = "unused"
    /\ cleartext = 0
    /\ src_ct = NoCt
    /\ dst_ct = NoCt
    /\ cast_state = "unused"
    /\ cast_trace = << >>
    /\ src_before = NoCt
    /\ dst_before = NoCt
    /\ decrypted = 0
    /\ tu_bits = 0
    /\ tu_dist = NoDist
    /\ tu_state = "unused"
    /\ tu_r = 0
    /\ tu_hist = << >>
    /\ tu_last = NoCall

\* What a run holds after a call that returned r on a buffer that held before
after_call(old, op, before, r, last) ==
    [old EXCEPT !.state = IF r.panicked THEN "panicked"
                          ELSE IF last THEN "done" ELSE "encrypting",
                !.op = op,
                !.calls = @ + 1,
                !.before = before,
                !.output = r.output,
                !.generator = r.generator,
                !.draws = @ \o r.draws]

\* encrypt_glwe_ciphertext(&key, &chunk, &mut list.get_mut(i), noise, &mut generator)
\* for the next ciphertext i of the run's list and chunk i of the plaintext list
G_Encrypt(r) ==
    /\ \/ MayStart(r)
       \/ run[r].state = "encrypting" /\ run[r].op = "encrypt"
    /\ \E fill \in PriorFills(r), shape \in BufferShapes(r), first \in FirstPlaintexts(r) :
          LET i == run[r].calls
              list == IF i = 0
                      THEN glwe_ciphertext_list_of_shape(
                               fill, [shape EXCEPT !.count = count_of_run])
                      ELSE run[r].output
              before == IF i = 0 THEN list.data ELSE run[r].before
              encoded == IF i = 0 THEN first
                         ELSE chunk(g_plaintext_list, polynomial_size_of_run, i)
          IN /\ shape.count = count_of_run
             /\ \E c \in {encrypt_glwe_ciphertext(
                              g_secret_key, encoded, list_get(list, i),
                              g_noise_parameters, run[r].generator)} :
                   run' = [run EXCEPT ![r] =
                              [after_call(@, "encrypt", before,
                                          [panicked |-> c.panicked,
                                           output |-> list_set(list, i, c.output),
                                           generator |-> c.generator,
                                           draws |-> for_ciphertext(c.draws, i)],
                                          i + 1 = count_of_run)
                                  EXCEPT !.encoded = encoded]]
    /\ glweUnchanged

\* encrypt_glwe_ciphertext_assign(&key, &mut ct, noise, &mut generator) on a
\* ciphertext whose body the caller loaded with the plaintext list
G_EncryptAssign ==
    /\ MayStart(1)
    /\ count_of_run = 1
    /\ \E fill \in PriorFills(1), shape \in BufferShapes(1) :
          LET list == glwe_ciphertext_list_of_shape(fill, shape)
              loaded == IF shape = fitting_shape
                        THEN [list EXCEPT !.data =
                                 get_mask(as_ciphertext(list)) \o g_plaintext_list]
                        ELSE list
          IN /\ shape.count = count_of_run
             /\ \E c \in {encrypt_glwe_ciphertext_assign(
                              g_secret_key, as_ciphertext(loaded), g_noise_parameters,
                              run[1].generator)} :
                   run' = [run EXCEPT ![1] =
                              after_call(@, "assign", loaded.data,
                                         [panicked |-> c.panicked,
                                          output |-> list_set(loaded, 0, c.output),
                                          generator |-> c.generator,
                                          draws |-> for_ciphertext(c.draws, 0)],
                                         TRUE)]
    /\ glweUnchanged

\* encrypt_glwe_ciphertext_list(&key, &plaintext_list, &mut list, noise, &mut generator)
G_EncryptList(r) ==
    /\ MayStart(r)
    /\ \E fill \in PriorFills(r), shape \in BufferShapes(r) :
          LET list == glwe_ciphertext_list_of_shape(fill, shape)
          IN \E c \in {encrypt_glwe_ciphertext_list(
                           g_secret_key, g_plaintext_list, list, g_noise_parameters,
                           run[r].generator)} :
                run' = [run EXCEPT ![r] =
                           [after_call(@, "list", list.data, c, TRUE)
                               EXCEPT !.encoded = g_plaintext_list]]
    /\ glweUnchanged

\* trivially_encrypt_glwe_ciphertext(&mut ct, &plaintext_list)
G_TriviallyEncrypt ==
    /\ MayStart(1)
    /\ count_of_run = 1
    /\ \E fill \in PriorFills(1) :
          LET list == new_glwe_ciphertext_list(fill)
              c == trivially_encrypt_glwe_ciphertext(as_ciphertext(list), g_plaintext_list)
          IN run' = [run EXCEPT ![1] =
                        after_call(@, "trivial", list.data,
                                   [panicked |-> c.panicked,
                                    output |-> list_set(list, 0, c.output),
                                    generator |-> run[1].generator,
                                    draws |-> << >>],
                                   TRUE)]
    /\ glweUnchanged

\* let ct = allocate_and_trivially_encrypt_new_glwe_ciphertext(glwe_size, &plaintext_list)
G_AllocateAndTriviallyEncrypt ==
    /\ MayStart(1)
    /\ count_of_run = 1
    /\ LET c == allocate_and_trivially_encrypt_new_glwe_ciphertext(
                    glwe_size_of_run, g_plaintext_list)
       IN run' = [run EXCEPT ![1] =
                     after_call(@, "allocate_trivial", << >>,
                                [panicked |-> FALSE,
                                 output |-> [data |-> c.data,
                                             glwe_size |-> glwe_size(c),
                                             polynomial_size |-> c.polynomial_size],
                                 generator |-> run[1].generator,
                                 draws |-> << >>],
                                TRUE)]
    /\ glweUnchanged

\* decrypt_glwe_ciphertext(&key, &ct, &mut output_plaintext_list) on the
\* ciphertext run 1 produced and a zeroed plaintext list
G_Decrypt ==
    /\ run[1].state = "done"
    /\ run[1].op \in {"encrypt", "assign", "trivial", "allocate_trivial"}
    /\ run[2].state = "idle"
    /\ count_of_run = 1
    /\ LET d == decrypt_glwe_ciphertext(
                    g_secret_key, as_ciphertext(run[1].output),
                    [j \in 1..Len(g_plaintext_list) |-> 0])
       IN run' = [run EXCEPT ![1].state = IF d.panicked THEN "panicked" ELSE "decrypted",
                             ![1].decrypted = d.output]
    /\ glweUnchanged

\* decrypt_glwe_ciphertext_list(&key, &list, &mut output_plaintext_list) on the
\* list run 1 produced and a zeroed plaintext list
G_DecryptList ==
    /\ run[1].state = "done"
    /\ run[1].op \in {"encrypt", "list"}
    /\ run[2].state = "idle"
    /\ run[1].op = "encrypt" => count_of_run > 1
    /\ LET d == decrypt_glwe_ciphertext_list(
                    g_secret_key, run[1].output, [j \in 1..Len(g_plaintext_list) |-> 0])
       IN run' = [run EXCEPT ![1].state = IF d.panicked THEN "panicked" ELSE "decrypted",
                             ![1].decrypted = d.output]
    /\ glweUnchanged

NextGlwe ==
    \/ \E r \in Runs : G_Encrypt(r)
    \/ G_EncryptAssign
    \/ \E r \in Runs : G_EncryptList(r)
    \/ G_TriviallyEncrypt
    \/ G_AllocateAndTriviallyEncrypt
    \/ G_Decrypt
    \/ G_DecryptList

(***************************************************************************)
(* GLWE encryption: two clients behind one mask generator                  *)
(*                                                                         *)
(* Run 1 encrypts with the key, plaintext list, noise parameters and       *)
(* generator of the state. Run 2 encrypts with a key, a plaintext list,    *)
(* noise parameters and a noise generator of its own, its mask generator   *)
(* being in the state run 1 started from. Both hand a buffer of the sizes  *)
(* of their key (the GLWE dimension and polynomial size are public         *)
(* parameters, the same for both).                                         *)
(***************************************************************************)
\* The plaintext lists of len scalars the two clients choose from
ClientPlaintexts(len) ==
    {[j \in 1..len |-> encoded_msg(msg)] : msg \in {0, 5}}
        \cup {[j \in 1..len |-> (13 * j + 7) % ScalarModulus]}

\* States of a noise generator: fresh, fresh with another seed, already used
NoiseGenerators == {[seed |-> 0, pos |-> 0], [seed |-> 3, pos |-> 0], [seed |-> 3, pos |-> 5]}

\* The arguments run r hands to the encryption besides the output buffer
EncryptionInputs(r) ==
    IF r = 1
    THEN {[glwe_secret_key |-> g_secret_key, plaintexts |-> g_plaintext_list,
           noise_parameters |-> g_noise_parameters, generator |-> g_generator_0]}
    ELSE {[glwe_secret_key |-> new_binary_glwe_secret_key(
                                   seed, glwe_dimension(g_secret_key), polynomial_size_of_run),
           plaintexts |-> plaintexts,
           noise_parameters |-> noise_parameters,
           generator |-> [g_generator_0 EXCEPT !.noise = noise]] :
              seed \in KeySeeds, plaintexts \in ClientPlaintexts(Len(g_plaintext_list)),
              noise_parameters \in NoiseParameters, noise \in NoiseGenerators}

\* The run with the arguments it was given
with_inputs(r, inputs) == r @@ [inputs |-> inputs]

InitMask ==
    /\ \E dimension \in 1..MaxGlweDimension, polynomial_size \in 1..MaxPolynomialSize :
          /\ g_secret_key \in
                 {new_binary_glwe_secret_key(seed, dimension, polynomial_size) :
                      seed \in KeySeeds}
          /\ g_plaintext_list \in ClientPlaintexts(polynomial_size)
    /\ g_noise_parameters \in NoiseParameters
    /\ g_generator_0 \in Generators
    /\ run = [r \in Runs |-> [NoRun EXCEPT !.generator = g_generator_0]]
    /\ overflow_checks = TRUE
    /\ key_pair_1 = NoKey
    /\ key_pair_2 = NoKey
    /\ ksk = NoKey
    /\ ksk_state = "unused"
    /\ cleartext = 0
    /\ src_ct = NoCt
    /\ dst_ct = NoCt
    /\ cast_state = "unused"
    /\ cast_trace = << >>
    /\ src_before = NoCt
    /\ dst_before = NoCt
    /\ decrypted = 0
    /\ tu_bits = 0
    /\ tu_dist = NoDist
    /\ tu_state = "unused"
    /\ tu_r = 0
    /\ tu_hist = << >>
    /\ tu_last = NoCall

\* encrypt_glwe_ciphertext(&key, &plaintexts, &mut ct, noise, &mut generator)
\* by client r on a buffer it allocated
M_Encrypt(r) ==
    /\ MayStart(r)
    /\ \E fill \in PriorFills(r), inputs \in EncryptionInputs(r) :
          LET list == glwe_ciphertext_list_of_shape(fill, fitting_shape)
          IN \E c \in {encrypt_glwe_ciphertext(
                           inputs.glwe_secret_key, inputs.plaintexts, as_ciphertext(list),
                           inputs.noise_parameters, inputs.generator)} :
                run' = [run EXCEPT ![r] =
                           with_inputs(
                               [after_call(@, "encrypt", list.data,
                                           [panicked |-> c.panicked,
                                            output |-> list_set(list, 0, c.output),
                                            generator |-> c.generator,
                                            draws |-> for_ciphertext(c.draws, 0)],
                                           TRUE)
                                   EXCEPT !.encoded = inputs.plaintexts],
                               inputs)]
    /\ glweUnchanged

\* encrypt_glwe_ciphertext_assign(&key, &mut ct, noise, &mut generator) by
\* client r on a buffer whose body it loaded with its plaintext list
M_EncryptAssign(r) ==
    /\ MayStart(r)
    /\ \E fill \in PriorFills(r), inputs \in EncryptionInputs(r) :
          LET list == glwe_ciphertext_list_of_shape(fill, fitting_shape)
              loaded == [list EXCEPT !.data =
                            get_mask(as_ciphertext(list)) \o inputs.plaintexts]
          IN \E c \in {encrypt_glwe_ciphertext_assign(
                           inputs.glwe_secret_key, as_ciphertext(loaded),
                           inputs.noise_parameters, inputs.generator)} :
                run' = [run EXCEPT ![r] =
                           with_inputs(
                               [after_call(@, "assign", loaded.data,
                                           [panicked |-> c.panicked,
                                            output |-> list_set(loaded, 0, c.output),
                                            generator |-> c.generator,
                                            draws |-> for_ciphertext(c.draws, 0)],
                                           TRUE)
                                   EXCEPT !.encoded = inputs.plaintexts],
                               inputs)]
    /\ glweUnchanged

NextMask ==
    \/ \E r \in Runs : M_Encrypt(r)
    \/ \E r \in Runs : M_EncryptAssign(r)

(***************************************************************************)
(* Specifications                                                          *)
(***************************************************************************)
SpecKS == InitKS /\ [][NextKS]_vars

SpecNew == InitNew /\ [][NextNew]_vars

SpecTU == InitTU /\ [][NextTU]_vars

SpecGlwe == InitGlwe /\ [][NextGlwe]_vars

SpecMask == InitMask /\ [][NextMask]_vars

(***************************************************************************)
(* Claims about the key switching key                                      *)
(***************************************************************************)
\* The invariants of a KeySwitchingKey: dimensions and moduli of the three
\* keys agree, both full message moduli are powers of two and cast_rshift is
\* the difference of their logarithms.
KskInvariants(k) ==
    /\ k.src_server_key.lwe_dimension = k.key_switching_key.input_key_lwe_dimension
    /\ k.dest_server_key.lwe_dimension = k.key_switching_key.output_key_lwe_dimension
    /\ k.key_switching_key.ciphertext_modulus = k.dest_server_key.ciphertext_modulus
    /\ k.src_server_key.ciphertext_modulus = k.dest_server_key.ciphertext_modulus
    /\ is_power_of_two(full_message_modulus(k.src_server_key))
    /\ is_power_of_two(full_message_modulus(k.dest_server_key))
    /\ k.cast_rshift = ilog2(full_message_modulus(k.dest_server_key))
                         - ilog2(full_message_modulus(k.src_server_key))

\* The source ciphertext carries the moduli of the source parameters, as
\* encrypt leaves them
tagged_as_encrypted ==
    /\ src_ct.message_modulus = ksk.src_server_key.message_modulus
    /\ src_ct.carry_modulus = ksk.src_server_key.carry_modulus

\* C1 as stated: for a key built by new, decrypting under P2 the result of
\* cast applied to an encryption of m under P1 gives m, for every m in
\* [0, m1*c1) and every sign of cast_rshift.
C1_CastRoundTrip ==
    (ksk_state = "new" /\ cast_state = "decrypted_cast" /\ tagged_as_encrypted)
        => decrypted = cleartext

\* C1 amended: for a key built by new, cast aborts only when the ciphertext
\* moduli of P1 and P2 differ; when it returns, the result is a ciphertext
\* under the destination key and decrypting it under P2 gives m mod (m2*c2),
\* which is m when cast_rshift >= 0 and, when narrowing, for m < m2*c2.
C1_CastRoundTripModDest ==
    (ksk_state = "new" /\ cast_state \in {"cast_panic", "cast", "decrypted_cast"}
         /\ tagged_as_encrypted) =>
        /\ cast_state = "cast_panic" =>
               key_pair_1.ciphertext_modulus # key_pair_2.ciphertext_modulus
        /\ cast_state = "cast" => dst_ct.ct.under = key_pair_2.id
        /\ cast_state = "decrypted_cast" =>
               /\ decrypted = cleartext % full_message_modulus(key_pair_2)
               /\ (ksk.cast_rshift >= 0 \/ cleartext < full_message_modulus(key_pair_2))
                      => decrypted = cleartext

\* A narrowing cast of a message that does not fit the destination modulus
\* has been decrypted.
C1_Witness ==
    /\ ksk_state = "new"
    /\ cast_state = "decrypted_cast"
    /\ tagged_as_encrypted
    /\ ksk.cast_rshift < 0
    /\ cleartext >= full_message_modulus(key_pair_2)
    /\ decrypted = cleartext % full_message_modulus(key_pair_2)
    /\ decrypted > 0

\* C2 as stated: no KeySwitchingKey that violates one of the invariants is
\* ever returned by new or by from_raw_parts (construction aborts instead).
C2_ConstructionGuardsInvariants ==
    ksk_state \in {"new", "from_raw_parts"} => KskInvariants(ksk)

\* C3 as stated: once construction completed, cast_into and cast complete
\* without aborting, for every source ciphertext.
C3_CastInfallible ==
    ksk_state \in {"new", "from_raw_parts"} => cast_state # "cast_panic"

(***************************************************************************)
(* Claims about the TUniform sampler                                       *)
(***************************************************************************)
\* The W-bit scalar a signed value v with |v| <= 2^16 is read from (two's
\* complement).
from_signed(v, W) ==
    LET u == IF v >= 0 THEN v ELSE (0 - v) - 1
    IN [k \in 0..(size_of(W) - 1) |->
          LET d == IF k >= 3 THEN 0 ELSE (u \div (256 ^ k)) % 256
          IN IF v >= 0 THEN d ELSE 255 - d]

\* The scalars of {-2^b, ..., 2^b}
Support(b, W) == {from_signed(v, W) : v \in (0 - 2 ^ b)..(2 ^ b)}

\* C4: for every width W and every b with b + 2 <= W, generate_one only
\* returns scalars of {-2^b, ..., 2^b}, whatever the bits above the low b + 2
\* ones of the drawn bytes; once the low b + 2 bits r have taken each of their
\* 2^(b+2) values, exactly the 2^(b+1) + 1 values of {-2^b, ..., 2^b} have been
\* returned, each interior one for exactly two values of r, each endpoint for
\* exactly one, and the two endpoints are distinct scalars.
C4_TUniformDistribution ==
    (tu_state = "ready"
         /\ as_usize_le(tu_dist.bound_log2, Min(tu_bits - 2, MaxBoundLog2))) =>
        LET b == u32_value(tu_dist.bound_log2)
            lo == from_signed(0 - 2 ^ b, tu_bits)
            hi == from_signed(2 ^ b, tu_bits)
        IN /\ DOMAIN tu_hist \subseteq Support(b, tu_bits)
           /\ tu_r = 2 ^ (b + 2) =>
                  /\ DOMAIN tu_hist = Support(b, tu_bits)
                  /\ Cardinality(DOMAIN tu_hist) = 2 ^ (b + 1) + 1
                  /\ lo # hi
                  /\ tu_hist[lo] = 1
                  /\ tu_hist[hi] = 1
                  /\ \A x \in DOMAIN tu_hist : x \notin {lo, hi} => tu_hist[x] = 2

\* Every r has been drawn for the largest bound a u8 accepts (b + 2 = 8) and
\* the endpoint -64 (the scalar 192) has been returned once.
C4_Witness ==
    /\ tu_state = "ready"
    /\ tu_bits = 8
    /\ tu_dist.bound_log2 = u32(6)
    /\ tu_r = 256
    /\ tu_last.drawn = <<255>>
    /\ (0 :> 192) \in DOMAIN tu_hist
    /\ tu_hist[0 :> 192] = 1

(***************************************************************************)
(* Claims about the GLWE encryption                                        *)
(***************************************************************************)
\* A torus scalar read as a signed value
centered(x) == IF x >= ScalarModulus \div 2 THEN x - ScalarModulus ELSE x

Abs(x) == IF x < 0 THEN 0 - x ELSE x

\* The noise samples run r drew for its ciphertext i, in the order drawn
noise_of(r, i) ==
    SelectSeq(run[r].draws, LAMBDA d : d.gen = "noise" /\ d.ct = i)

\* Every noise sample run r drew is below 2^(W-5) in absolute value.
SmallNoise(r) ==
    \A j \in 1..Len(run[r].draws) :
        run[r].draws[j].gen = "noise" =>
            Abs(centered(run[r].draws[j].value)) < 2 ^ (ScalarBits - 5)

\* The mask part of what run r left or found in its buffer
mask_part(data) == SubSeq(data, 1, Len(data) - polynomial_size_of_run)

\* C5: for every binary key, every mask and every message msg of [0, 16)
\* encoded as msg << (W-4) in every coefficient: if every noise sample drawn is
\* below 2^(W-5) in absolute value, then decrypting what
\* encrypt_glwe_ciphertext, encrypt_glwe_ciphertext_assign or
\* encrypt_glwe_ciphertext_list (with decrypt_glwe_ciphertext_list) produced,
\* and rounding every coefficient to its top 4 bits, gives msg everywhere.
C5_EncryptDecryptRoundTrip ==
    \A msg \in Messages :
        (/\ run[1].state = "decrypted"
         /\ run[1].op \in {"encrypt", "assign", "list"}
         /\ g_plaintext_list = [j \in 1..Len(g_plaintext_list) |-> encoded_msg(msg)]
         /\ SmallNoise(1))
        => /\ Len(run[1].decrypted) = Len(g_plaintext_list)
           /\ \A j \in 1..Len(run[1].decrypted) : decode(run[1].decrypted[j]) = msg

\* A list of two ciphertexts of the message 3 under a key with a non-zero
\* coefficient was decrypted, with noise samples at both ends of the allowed
\* range.
C5_Witness ==
    /\ run[1].state = "decrypted"
    /\ run[1].op = "list"
    /\ count_of_run = 2
    /\ g_plaintext_list = [j \in 1..Len(g_plaintext_list) |-> encoded_msg(3)]
    /\ \E j \in 1..Len(g_secret_key.data) : g_secret_key.data[j] = 1
    /\ SmallNoise(1)
    /\ \E j \in 1..Len(run[1].draws) :
          /\ run[1].draws[j].gen = "noise"
          /\ centered(run[1].draws[j].value) = 2 ^ (ScalarBits - 5) - 1
    /\ \E j \in 1..Len(run[1].draws) :
          /\ run[1].draws[j].gen = "noise"
          /\ centered(run[1].draws[j].value) = 1 - 2 ^ (ScalarBits - 5)
    /\ \A j \in 1..Len(run[1].decrypted) : decode(run[1].decrypted[j]) = 3

\* C6: the ciphertext trivially_encrypt_glwe_ciphertext leaves in a buffer of
\* any content, and the one allocate_and_trivially_encrypt_new_glwe_ciphertext
\* returns, has an all-zero mask and the plaintext list as its body, and
\* decrypt_glwe_ciphertext of it under the secret key returns the plaintext
\* list bit for bit.
C6_TrivialEncryption ==
    run[1].op \in {"trivial", "allocate_trivial"} =>
        /\ run[1].state \in {"done", "decrypted"}
        /\ mask_part(run[1].output.data)
               = [j \in 1..Len(g_secret_key.data) |-> 0]
        /\ get_body(as_ciphertext(run[1].output)) = g_plaintext_list
        /\ run[1].output.glwe_size = glwe_size_of_run
        /\ run[1].state = "decrypted" => run[1].decrypted = g_plaintext_list

\* A trivial encryption into a buffer whose mask was not zero was decrypted
\* under a key with a non-zero coefficient, and gave the plaintext list back.
C6_Witness ==
    /\ run[1].op = "trivial"
    /\ run[1].state = "decrypted"
    /\ \E j \in 1..Len(g_secret_key.data) :
          g_secret_key.data[j] = 1 /\ run[1].before[j] # 0
    /\ \E j \in 1..Len(g_plaintext_list) : g_plaintext_list[j] # 0
    /\ run[1].decrypted = g_plaintext_list

\* C7: encrypt_glwe_ciphertext_list leaves in the list, and leaves the
\* generator in, what the n calls of encrypt_glwe_ciphertext on ciphertext i
\* and chunk i, for i = 0..n-1 in this order, leave when started from the same
\* generator state; ciphertext i decrypts to chunk i plus the noise drawn for
\* ciphertext i.
C7_ListEqualsSuccessive ==
    (/\ run[1].op = "list" /\ run[1].state = "done"
     /\ run[2].op = "encrypt" /\ run[2].state = "done")
    => /\ run[2].calls = count_of_run
       /\ run[1].output = run[2].output
       /\ run[1].generator = run[2].generator
       /\ \A i \in 0..(count_of_run - 1) :
             decrypt_glwe_ciphertext(g_secret_key, list_get(run[1].output, i),
                                     [j \in 1..polynomial_size_of_run |-> 0]).output
               = polynomial_wrapping_add_assign(
                     chunk(g_plaintext_list, polynomial_size_of_run, i),
                     [j \in 1..polynomial_size_of_run |-> noise_of(1, i)[j].value])

\* A list encryption of two different chunks and the two successive
\* encryptions, on buffers that held different data, left the same list.
C7_Witness ==
    /\ run[1].op = "list" /\ run[1].state = "done"
    /\ run[2].op = "encrypt" /\ run[2].state = "done"
    /\ count_of_run = 2
    /\ chunk(g_plaintext_list, polynomial_size_of_run, 0)
           # chunk(g_plaintext_list, polynomial_size_of_run, 1)
    /\ run[1].before # run[2].before
    /\ run[1].output = run[2].output
    /\ list_get(run[1].output, 0) # list_get(run[1].output, 1)

\* C8: in the draws of encrypt_glwe_ciphertext_list, taken in the order they
\* were made, every draw for ciphertext i comes after every draw for
\* ciphertext i-1 (so the draws of two ciphertexts never interleave and each
\* generator is read in increasing position), within one ciphertext every mask
\* draw comes before every noise draw, and every ciphertext draws its k*N mask
\* scalars and its N noise samples.
C8_DrawOrder ==
    \A r \in Runs :
        (run[r].op = "list" /\ run[r].state = "done") =>
            LET d == run[r].draws
            IN /\ Len(d) = count_of_run * glwe_size_of_run * polynomial_size_of_run
               /\ \A a, b \in 1..Len(d) :
                     a < b =>
                        /\ d[a].ct <= d[b].ct
                        /\ d[a].gen = d[b].gen => d[a].pos < d[b].pos
                        /\ (d[a].ct = d[b].ct /\ d[a].gen = "noise") => d[b].gen = "noise"
               /\ \A i \in 0..(count_of_run - 1) :
                     /\ Cardinality({a \in 1..Len(d) : d[a].ct = i /\ d[a].gen = "mask"})
                            = Len(g_secret_key.data)
                     /\ Cardinality({a \in 1..Len(d) : d[a].ct = i /\ d[a].gen = "noise"})
                            = polynomial_size_of_run

\* A list of two ciphertexts of dimension 2 and polynomial size 2 was
\* encrypted: twelve draws, the last draw of the first ciphertext a noise
\* sample and the next one the first mask scalar of the second ciphertext.
C8_Witness ==
    /\ run[1].op = "list" /\ run[1].state = "done"
    /\ count_of_run = 2
    /\ glwe_size_of_run = 3
    /\ polynomial_size_of_run = 2
    /\ Len(run[1].draws) = 12
    /\ run[1].draws[6].gen = "noise" /\ run[1].draws[6].ct = 0
    /\ run[1].draws[7].gen = "mask" /\ run[1].draws[7].ct = 1

\* C9: two runs of encrypt_glwe_ciphertext (for every ciphertext of the list),
\* or two runs of encrypt_glwe_ciphertext_list, with the same key, plaintext
\* list, noise parameters and generator state leave the same mask and body
\* and the same generator state, whatever the two output buffers held.
C9_Deterministic ==
    (/\ run[1].state = "done" /\ run[2].state = "done"
     /\ run[1].op = run[2].op)
    => /\ run[1].op \in {"encrypt", "list"}
       /\ run[1].output = run[2].output
       /\ run[1].generator = run[2].generator
       /\ run[1].draws = run[2].draws

\* encrypt_glwe_ciphertext ran twice on buffers that differed in mask and in
\* body, with a noise sample that is not zero, and left the same ciphertext.
C9_Witness ==
    /\ run[1].state = "done" /\ run[2].state = "done"
    /\ run[1].op = "encrypt" /\ run[2].op = "encrypt"
    /\ count_of_run = 1
    /\ run[1].before[1] # run[2].before[1]
    /\ run[1].before[Len(run[1].before)] # run[2].before[Len(run[2].before)]
    /\ \E j \in 1..Len(run[1].draws) :
          run[1].draws[j].gen = "noise" /\ run[1].draws[j].value # 0
    /\ run[1].output = run[2].output

\* C10: encrypt_glwe_ciphertext_assign on a ciphertext whose body holds the
\* plaintext list, whatever its mask holds, leaves the mask, the body and the
\* generator state that encrypt_glwe_ciphertext leaves when run from the same
\* generator state.
C10_AssignEqualsEncrypt ==
    (/\ run[1].op = "assign" /\ run[1].state = "done"
     /\ run[2].op = "encrypt" /\ run[2].state = "done")
    => /\ SubSeq(run[1].before, Len(run[1].before) - polynomial_size_of_run + 1,
                 Len(run[1].before)) = g_plaintext_list
       /\ run[1].output = run[2].output
       /\ run[1].generator = run[2].generator

\* The assign variant ran on a buffer with a non-zero mask and a non-zero
\* plaintext list in its body, with non-zero noise, and encrypt_glwe_ciphertext
\* then left the same ciphertext.
C10_Witness ==
    /\ run[1].op = "assign" /\ run[1].state = "done"
    /\ run[2].op = "encrypt" /\ run[2].state = "done"
    /\ run[1].before[1] # 0
    /\ \E j \in 1..Len(g_plaintext_list) : g_plaintext_list[j] # 0
    /\ \E j \in 1..Len(run[1].draws) :
          run[1].draws[j].gen = "noise" /\ run[1].draws[j].value # 0
    /\ run[1].output = run[2].output
    /\ run[1].generator # g_generator_0

(***************************************************************************)
(* C11: encryption has no partial failure                                  *)
(***************************************************************************)
\* The GLWE dimension and polynomial size of the run's buffer are the key's
sizes_fit(r) ==
    /\ run[r].output.glwe_size - 1 = glwe_dimension(g_secret_key)
    /\ run[r].output.polynomial_size = g_secret_key.polynomial_size

\* The plaintext list the run handed over has N scalars (N * n for a list)
plaintext_count_fits(r) ==
    CASE run[r].op = "encrypt" -> Len(run[r].encoded) = run[r].output.polynomial_size
      [] run[r].op = "list" ->
            Len(run[r].encoded) =
                run[r].output.polynomial_size * glwe_ciphertext_count(run[r].output)
      [] OTHER -> TRUE

\* C11: encrypt_glwe_ciphertext, _assign and _list abort exactly when the
\* GLWE dimension or the polynomial size of the output differs from the
\* key's or the plaintext count differs from N (N * n for a list); an abort
\* leaves the output as it was and the generator where it was, no draw being
\* made; a list encryption that passed its own checks never aborts in one of
\* its per-ciphertext calls (it would leave part of the list written).
C11_NoPartialFailure ==
    \A r \in Runs :
        (run[r].op \in {"encrypt", "assign", "list"}
             /\ run[r].state \in {"panicked", "encrypting", "done"}) =>
            /\ run[r].state = "panicked" <=> ~(sizes_fit(r) /\ plaintext_count_fits(r))
            /\ run[r].state = "panicked" =>
                   /\ run[r].calls = 1
                   /\ run[r].output.data = run[r].before
                   /\ run[r].generator = g_generator_0
                   /\ run[r].draws = << >>

\* A list encryption aborted on a buffer of one ciphertext too many, whose
\* sizes fit the key and which held non-zero data.
C11_Witness ==
    /\ run[1].state = "panicked"
    /\ run[1].op = "list"
    /\ sizes_fit(1)
    /\ glwe_ciphertext_count(run[1].output) = count_of_run + 1
    /\ \E j \in 1..Len(run[1].before) : run[1].before[j] # 0
    /\ run[1].output.data = run[1].before

(***************************************************************************)
(* C12: TUniform::new enforces bound_log2 + 2 <= W                         *)
(***************************************************************************)
\* bound_log2 + 2 > W, the sum taken as a mathematical integer
exceeds_width(bound_log2, W) == ~as_usize_le(bound_log2, W - 2)

\* C12: for every width W and every u32 bound_log2, TUniform::new aborts when
\* bound_log2 + 2 > W as a mathematical sum, the values whose 32-bit sum wraps
\* included, and returns the distribution of that bound_log2 otherwise: no
\* distribution with bound_log2 + 2 > W is ever handed to the sampler.
C12_NewEnforcesBound ==
    tu_state \in {"ready", "new_panic"} =>
        /\ tu_state = "new_panic" <=> exceeds_width(tu_last.bound_log2, tu_bits)
        /\ tu_state = "ready" =>
               /\ tu_dist.bound_log2 = tu_last.bound_log2
               /\ ~exceeds_width(tu_dist.bound_log2, tu_bits)

(***************************************************************************)
(* C13: order of the steps of cast_into                                    *)
(***************************************************************************)
\* A cast has returned
cast_returned ==
    cast_state \in {"cast_into", "cast", "decrypted_cast_into", "decrypted_cast"}

\* The destination the call was given: the caller's, or the one cast created
dest_given ==
    IF dst_before = NoCt THEN create_trivial(ksk.dest_server_key, 0) ELSE dst_before

\* C13: a cast that returns has done, for cast_rshift = 0, one keyswitch and
\* no lookup table; for cast_rshift = i > 0, the keyswitch into the
\* destination and then one lookup table on the destination, the table of
\* n -> n >> i made by the destination server key; for cast_rshift < 0, one
\* lookup table by the source server key and then the keyswitch of the shifted
\* ciphertext into the destination. In each case there is exactly one
\* keyswitch and it is the only step that uses the keyswitch key.
C13_StepOrder ==
    cast_returned =>
        LET i == ksk.cast_rshift
        IN /\ i = 0 => cast_trace = <<ks_step>>
           /\ i > 0 =>
                  /\ cast_trace = <<ks_step, lut_step("dest_server_key", "ct_dest")>>
                  /\ i < U64Bits =>
                         dst_ct = apply_lookup_table(
                                      ksk.dest_server_key,
                                      [dest_given EXCEPT
                                         !.ct = keyswitch_lwe_ciphertext(
                                                    ksk.key_switching_key, src_before.ct,
                                                    dest_given.ct)],
                                      [n \in 0..(full_message_modulus(ksk.dest_server_key) - 1)
                                          |-> shr_u64(n, i)])
           /\ i < 0 => cast_trace = <<lut_step("src_server_key", "copy of ct"), ks_step>>
           /\ Cardinality({j \in DOMAIN cast_trace : cast_trace[j].op = "keyswitch"}) = 1
           /\ \A j \in DOMAIN cast_trace :
                  cast_trace[j].key = "key_switching_key" <=> cast_trace[j].op = "keyswitch"

\* A widening cast by two bits (1_1 to 2_2) has returned after its two steps.
C13_Witness ==
    /\ cast_state = "cast_into"
    /\ ksk_state = "new"
    /\ ksk.cast_rshift = 2
    /\ Len(cast_trace) = 2
    /\ cast_trace[1] = ks_step
    /\ cleartext = 3

(***************************************************************************)
(* C14: cast_rshift as computed by new                                     *)
(***************************************************************************)
\* The full message modulus m * c of a parameter set as a mathematical
\* integer: the 16 bytes of the exact product
full_modulus_exact(p) ==
    [k \in 0..(2 * UsizeBytes - 1) |->
        mul_byte(carry_modulus_of(p), message_modulus_of(p), k)]

\* C14: for every pair of parameter sets whose full message moduli are powers
\* of two, new returns a key whose cast_rshift is log2(m2*c2) - log2(m1*c1),
\* the i8 conversions and the i8 subtraction not overflowing, so that
\* -63 <= cast_rshift <= 63; new aborts when one of the full message moduli
\* is not a power of two.
C14_NewComputesCastRshift ==
    ksk_state \in {"new", "ctor_panic"} =>
        LET full_1 == full_modulus_exact(key_pair_1)
            full_2 == full_modulus_exact(key_pair_2)
            powers == usize_is_power_of_two(full_1) /\ usize_is_power_of_two(full_2)
        IN /\ powers =>
                  /\ ksk_state = "new"
                  /\ ksk.cast_rshift = usize_ilog2(full_2) - usize_ilog2(full_1)
                  /\ ksk.cast_rshift >= 1 - UsizeBits
                  /\ ksk.cast_rshift <= UsizeBits - 1
           /\ ~powers => ksk_state = "ctor_panic"

(***************************************************************************)
(* C15: bytes drawn by one TUniform sample                                 *)
(***************************************************************************)
\* The bytes read as a number, the first one being the least significant
little_endian(bytes) ==
    IF Len(bytes) = 0 THEN 0
    ELSE IF Len(bytes) = 1 THEN bytes[1]
    ELSE bytes[1] + 256 * bytes[2]

\* C15: for every W and every b with b + 2 <= W, one sample of TUniform(b)
\* takes exactly ceil((b + 2) / 8) bytes from the generator and leaves the
\* following ones; with the bytes packed as a little-endian number, the first
\* byte drawn being the least significant, the sample is a function of the low
\* b + 2 bits r of that number alone, (r >> 1) + (r & 1) - 2^b, whatever the
\* bits above them: draws that agree on the low b + 2 bits return the same
\* value.
C15_BytesDrawn ==
    (tu_state = "ready" /\ tu_r > 0
         /\ as_usize_le(tu_dist.bound_log2, Min(tu_bits - 2, MaxBoundLog2))) =>
        LET b == u32_value(tu_dist.bound_log2)
            r == little_endian(tu_last.drawn) % (2 ^ (b + 2))
        IN /\ Len(tu_last.drawn) = (b + 2 + 7) \div 8
           /\ tu_last.rest = Trailing
           /\ r = tu_last.r
           /\ tu_last.value = from_signed((r \div 2) + (r % 2) - 2 ^ b, tu_bits)

\* A sample of TUniform(7) on u32 has drawn two bytes, the second one with
\* bits set above the 9 low bits of the pair, and returned the upper endpoint.
C15_Witness ==
    /\ tu_state = "ready"
    /\ tu_bits = 32
    /\ tu_dist.bound_log2 = u32(7)
    /\ tu_r > 0
    /\ Len(tu_last.drawn) = 2
    /\ tu_last.drawn[2] >= 2
    /\ tu_last.r = 2 ^ 9 - 1
    /\ tu_last.value = from_signed(2 ^ 7, 32)

(***************************************************************************)
(* C16: cast is cast_into on a fresh trivial encryption of 0               *)
(***************************************************************************)
\* C16: cast(src) returns what cast_into(src, dst) leaves in dst when dst is
\* a trivial encryption of 0 made by the destination server key, and aborts
\* when that call aborts; a cast_into on such a dst leaves what cast
\* returns. Whatever the sign of cast_rshift, the ciphertext returned carries
\* the message modulus and the carry modulus of the destination parameters.
C16_CastIsCastIntoTrivialZero ==
    /\ (cast_state \in {"cast", "cast_panic"} /\ dst_before = NoCt) =>
           LET r == cast_into(ksk, src_before, create_trivial(ksk.dest_server_key, 0))
           IN /\ r.panicked <=> cast_state = "cast_panic"
              /\ cast_state = "cast" =>
                     /\ dst_ct = r.dest
                     /\ cast_trace = r.trace
                     /\ dst_ct.message_modulus = ksk.dest_server_key.message_modulus
                     /\ dst_ct.carry_modulus = ksk.dest_server_key.carry_modulus
    /\ (cast_state = "cast_into"
           /\ dst_before = create_trivial(ksk.dest_server_key, 0)) =>
           dst_ct = cast(ksk, src_before).dest

\* A narrowing cast from 2_2 to 1_1 has returned a ciphertext with the moduli
\* of 1_1, which are not those of the source.
C16_Witness ==
    /\ cast_state = "cast"
    /\ ksk_state = "new"
    /\ ksk.cast_rshift < 0
    /\ src_before.message_modulus = 4
    /\ dst_ct.message_modulus = 2
    /\ dst_ct.carry_modulus = 2
    /\ dst_ct = cast_into(ksk, src_before, create_trivial(ksk.dest_server_key, 0)).dest

(***************************************************************************)
(* C17: decryption of an encryption is the plaintext plus the noise        *)
(***************************************************************************)
\* The noise samples run r drew, in the order of the coefficients they are for
noise_drawn(r) == SelectSeq(run[r].draws, LAMBDA d : d.gen = "noise")

\* Coefficient j (from 0) of the inner product <A, S> in the negacyclic ring
inner_product(mask, key, n, j) ==
    SeqSum([t \in 1..Len(mask) |->
               LET i == (t - 1) % n
                   s == key[t - i + ((j - i) % n)]
               IN IF i > j THEN 0 - mask[t] * s ELSE mask[t] * s])

\* C17: for every secret key S, plaintext P, mask A and noise E, every
\* ciphertext encrypt_glwe_ciphertext has written (alone or in a list) has the
\* body <A,S> + P + E, coefficient by coefficient modulo 2^W, A being its mask
\* and E the noise drawn for it; once decrypted, the plaintext obtained minus
\* P is E exactly, for every coefficient, with nothing of A or S left.
C17_DecryptionIsPlaintextPlusNoise ==
    (run[1].op \in {"encrypt", "list"} /\ run[1].state \in {"done", "decrypted"}) =>
        LET n == polynomial_size_of_run
            E == noise_drawn(1)
        IN /\ Len(E) = Len(g_plaintext_list)
           /\ \A i \in 0..(count_of_run - 1) : \A j \in 0..(n - 1) :
                  LET ct == list_get(run[1].output, i)
                  IN get_body(ct)[j + 1] =
                         (inner_product(get_mask(ct), g_secret_key.data, n, j)
                              + g_plaintext_list[i * n + j + 1] + E[i * n + j + 1].value)
                             % ScalarModulus
           /\ run[1].state = "decrypted" =>
                  \A j \in 1..Len(g_plaintext_list) :
                      (run[1].decrypted[j] - g_plaintext_list[j]) % ScalarModulus
                          = E[j].value

\* A list of two ciphertexts of polynomial size 2 under a key of dimension 2
\* with a non-zero coefficient was decrypted; the noise was not zero and the
\* body of the first ciphertext is not its plaintext plus its noise.
C17_Witness ==
    /\ run[1].state = "decrypted"
    /\ run[1].op = "list"
    /\ count_of_run = 2
    /\ polynomial_size_of_run = 2
    /\ glwe_size_of_run = 3
    /\ \E j \in 1..Len(g_secret_key.data) : g_secret_key.data[j] = 1
    /\ \E j \in 1..Len(run[1].decrypted) : run[1].decrypted[j] # g_plaintext_list[j]
    /\ get_body(list_get(run[1].output, 0))[1]
           # (g_plaintext_list[1] + noise_drawn(1)[1].value) % ScalarModulus
    /\ \A j \in 1..Len(g_plaintext_list) :
           (run[1].decrypted[j] - g_plaintext_list[j]) % ScalarModulus
               = noise_drawn(1)[j].value

(***************************************************************************)
(* C18: the lookup table of the narrowing case                             *)
(***************************************************************************)
\* C18: when cast_rshift = i < 0, the lookup table applied to the source is
\* n -> (n << -i) mod (m1*c1), m1*c1 being the full message modulus of the
\* parameters of the source server key, whatever message_modulus and
\* carry_modulus the source ciphertext carries: the destination holds the
\* keyswitch of that table applied to the source.
C18_NarrowingTableUsesSourceParameters ==
    (cast_returned /\ ksk.cast_rshift < 0 /\ ksk.cast_rshift > 0 - U64Bits) =>
        LET mc == full_message_modulus(ksk.src_server_key)
            acc == [n \in 0..(mc - 1) |-> shl_u64_mod(n, 0 - ksk.cast_rshift, mc)]
            shifted_cipher == apply_lookup_table(ksk.src_server_key, src_before, acc)
        IN dst_ct.ct = keyswitch_lwe_ciphertext(ksk.key_switching_key, shifted_cipher.ct,
                                                dest_given.ct)

(***************************************************************************)
(* C19: the order of the narrowing case is not interchangeable             *)
(***************************************************************************)
\* What the destination client decrypts when the keyswitch is done before the
\* left-shift table, the table reducing modulo the product of the moduli of c
decrypted_keyswitch_first(c) ==
    decrypt_message_and_carry(ksk.dest_server_key,
                              cast_into_keyswitch_first(ksk, c, dest_given).dest)

\* C19: for P1 = (message 2 bits, carry 2 bits), P2 = (1 bit, 1 bit) and the
\* message 1, new gives cast_rshift = -2 and the cast as implemented (table
\* on the source, then keyswitch) decrypts under P2 to 1, whereas the keyswitch
\* followed by the left-shift table on the destination decrypts to another
\* value, whether the table reduces modulo m1*c1 or modulo m2*c2.
C19_NarrowingOrderMatters ==
    (/\ ksk_state = "new"
     /\ key_pair_1.id = "2_2" /\ key_pair_2.id = "1_1"
     /\ cast_state \in {"decrypted_cast", "decrypted_cast_into"}
     /\ tagged_as_encrypted
     /\ cleartext = 1)
    => /\ ksk.cast_rshift = -2
       /\ decrypted = 1
       /\ decrypted_keyswitch_first(src_before) # 1
       /\ decrypted_keyswitch_first(
              [src_before EXCEPT !.message_modulus = key_pair_2.message_modulus,
                                 !.carry_modulus = key_pair_2.carry_modulus]) # 1

\* The message 1 was cast from (4, 4) to (2, 2) and decrypted to 1; with the
\* keyswitch first it would have been decrypted to 0.
C19_Witness ==
    /\ ksk_state = "new"
    /\ key_pair_1.id = "2_2" /\ key_pair_2.id = "1_1"
    /\ cast_state = "decrypted_cast"
    /\ tagged_as_encrypted
    /\ cleartext = 1
    /\ decrypted = 1
    /\ decrypted_keyswitch_first(src_before) = 0

(***************************************************************************)
(* C20: what cast_into writes                                              *)
(***************************************************************************)
\* C20: a call of cast_into or cast, whether it returns or aborts, leaves the
\* source ciphertext (LWE data and moduli) and the KeySwitchingKey as they
\* were, whatever the sign of cast_rshift; when cast_rshift <= 0 a call of
\* cast_into writes the LWE data of the destination only: its moduli keep the
\* values they had before the call.
C20_CastIntoFrame ==
    [][(cast_state = "encrypted"
            /\ cast_state' \in {"cast_into", "cast", "cast_panic"}) =>
           /\ src_ct' = src_ct
           /\ ksk' = ksk
           /\ (dst_before' # NoCt /\ ksk.cast_rshift <= 0) =>
                  [dst_ct' EXCEPT !.ct = dst_before'.ct] = dst_before']_vars

\* A narrowing cast_into from (4, 4) to (2, 2) has written the LWE data of a
\* destination that keeps the moduli (2, 2), the source being as before.
C20_Witness ==
    /\ cast_state = "cast_into"
    /\ ksk_state = "new"
    /\ ksk.cast_rshift < 0
    /\ src_ct = src_before
    /\ src_ct.message_modulus = 4
    /\ dst_ct.ct # dst_before.ct
    /\ dst_ct.message_modulus = 2
    /\ [dst_ct EXCEPT !.ct = dst_before.ct] = dst_before

(***************************************************************************)
(* C21: the mask depends on the mask generator only                        *)
(***************************************************************************)
\* The draws run r made from its mask generator, in the order drawn
mask_drawn(r) == SelectSeq(run[r].draws, LAMBDA d : d.gen = "mask")

\* The next len scalars of the stream of a mask generator in state g
mask_stream(g, len) == [j \in 1..len |-> mask_scalar(g.seed, g.pos + j - 1)]

\* Both clients got a ciphertext from encrypt_glwe_ciphertext or
\* encrypt_glwe_ciphertext_assign.
both_encrypted ==
    /\ run[1].state = "done" /\ run[1].op \in {"encrypt", "assign"}
    /\ run[2].state = "done" /\ run[2].op \in {"encrypt", "assign"}

\* C21: when encrypt_glwe_ciphertext or encrypt_glwe_ciphertext_assign ran
\* twice from the same mask generator state, with secret keys, plaintext
\* lists, noise parameters, noise generator states and prior buffer contents
\* that may all differ, the two ciphertexts have the same mask, which is the
\* next k*N scalars of the mask generator's stream; the two runs made the
\* same draws from the mask generator and left it in the same state. (A
\* noise sample therefore reaches the ciphertext through the body only.)
C21_MaskFromMaskGeneratorOnly ==
    both_encrypted =>
        /\ run[1].inputs.generator.mask = run[2].inputs.generator.mask
        /\ mask_part(run[1].output.data) = mask_part(run[2].output.data)
        /\ mask_part(run[1].output.data)
               = mask_stream(g_generator_0.mask, Len(g_secret_key.data))
        /\ mask_drawn(1) = mask_drawn(2)
        /\ Len(mask_drawn(1)) = Len(g_secret_key.data)
        /\ run[1].generator.mask = run[2].generator.mask

\* encrypt_glwe_ciphertext and encrypt_glwe_ciphertext_assign ran from the
\* same mask generator state with two keys, two plaintext lists, two noise
\* parameters and two noise generator states, drew noise samples that differ
\* and left two bodies behind four equal mask scalars.
C21_Witness ==
    /\ both_encrypted
    /\ run[1].op = "encrypt" /\ run[2].op = "assign"
    /\ run[1].inputs.glwe_secret_key # run[2].inputs.glwe_secret_key
    /\ run[1].inputs.plaintexts # run[2].inputs.plaintexts
    /\ run[1].inputs.noise_parameters # run[2].inputs.noise_parameters
    /\ run[1].inputs.generator.noise # run[2].inputs.generator.noise
    /\ run[1].inputs.generator.mask = run[2].inputs.generator.mask
    /\ run[1].before # run[2].before
    /\ Len(mask_part(run[1].output.data)) = 4
    /\ mask_part(run[1].output.data) = mask_part(run[2].output.data)
    /\ get_body(as_ciphertext(run[1].output)) # get_body(as_ciphertext(run[2].output))
    /\ \E j \in 1..polynomial_size_of_run :
          noise_of(1, 0)[j].value # noise_of(2, 0)[j].value

====
